---- MODULE Spec2Model ----
(***************************************************************************)
(* Model of skills/subtitle-correction/scripts/subtitle_tool.py:           *)
(* the tokenizer and the difflib alignment behind word_level_diff, the SRT *)
(* parser parse_srt and the structural validator validate_correction.      *)
(* difflib.SequenceMatcher is modelled from CPython's difflib.py, as the   *)
(* script calls it.                                                        *)
(*                                                                         *)
(* A Python str is modelled as a sequence of characters; a character is a  *)
(* one-element atom (a TLA+ string naming it).  Python indices are 0-based *)
(* and ranges half-open; At and Slice keep that convention.                *)
(***************************************************************************)
EXTENDS Integers, Sequences, FiniteSets, TLC

(***************************************************************************)
(* Characters                                                              *)
(***************************************************************************)
SP == " "
NL == "\n"
TAB == "\t"
CR == "\r"
\* CJK ideographs (non-ASCII, not whitespace): U+6846 and U+67B6.
ZH1 == "U+6846"
ZH2 == "U+67B6"
\* A byte that is not valid UTF-8.
BadByte == "0xFF"

Digits == {"0", "1", "2", "3", "4", "5", "6", "7", "8", "9"}
AsciiLetters ==
    {"a", "b", "c", "d", "e", "f", "g", "h", "i", "j", "k", "l", "m",
     "n", "o", "p", "q", "r", "s", "t", "u", "v", "w", "x", "y", "z",
     "A", "B", "C", "D", "E", "F", "G", "H", "I", "J", "K", "L", "M",
     "N", "O", "P", "Q", "R", "S", "T", "U", "V", "W", "X", "Y", "Z"}
\* char.isascii() and char.isalnum()
AsciiAlnum == Digits \cup AsciiLetters
IsAsciiAlnum(ch) == ch \in AsciiAlnum
\* str.isspace() / what str.strip() removes / what \s matches
Whitespace == {SP, NL, TAB, CR}
IsSpace(ch) == ch \in Whitespace

At(s, i) == s[i + 1]
Slice(s, i1, i2) == SubSeq(s, i1 + 1, i2)

RECURSIVE Join(_)
\* ''.join(list of strings)
Join(parts) == IF parts = <<>> THEN <<>> ELSE Head(parts) \o Join(Tail(parts))

(***************************************************************************)
(* Bounds                                                                  *)
(***************************************************************************)
MaxTextLen == 3
\* Files of more than one block hold at most MaxBlocks blocks.
MaxBlocks == 2

(***************************************************************************)
(* Tokenizer (word_level_diff.tokenize, word_level_diff_html.tokenize)     *)
(***************************************************************************)
\* The call char.strip() of the tokenizer: '' for a whitespace character.
CharStrip(ch) == IF IsSpace(ch) THEN <<>> ELSE <<ch>>

\* Flush of current_word in front of a non-alphanumeric character.
Flush(tokens, current_word) ==
    IF current_word # <<>> THEN Append(tokens, current_word) ELSE tokens

\* What the tokenizer appends for a character that is not ASCII alphanumeric.
KeepChar(tokens, ch) ==
    IF CharStrip(ch) # <<>> THEN Append(tokens, <<ch>>)
    ELSE IF ch = SP THEN Append(tokens, <<ch>>)
    ELSE tokens

RECURSIVE TokenizeLoop(_, _, _, _)
TokenizeLoop(text, k, tokens, current_word) ==
    IF k >= Len(text) THEN Flush(tokens, current_word)
    ELSE LET ch == At(text, k) IN
         IF IsAsciiAlnum(ch)
         THEN TokenizeLoop(text, k + 1, tokens, Append(current_word, ch))
         ELSE TokenizeLoop(text, k + 1, KeepChar(Flush(tokens, current_word), ch), <<>>)

tokenize(text) == TokenizeLoop(text, 0, <<>>, <<>>)

(***************************************************************************)
(* difflib.SequenceMatcher(None, a, b), as word_level_diff constructs it:  *)
(* isjunk is None, autojunk keeps its default True.                        *)
(***************************************************************************)
AutojunkMinLen == 200

Occurrences(b, elt) == Cardinality({j \in 1..Len(b) : b[j] = elt})

\* __chain_b: the elements of b purged from b2j as "popular".
bpopular(b) ==
    IF Len(b) >= AutojunkMinLen
    THEN {b[j] : j \in {p \in 1..Len(b) : Occurrences(b, b[p]) > (Len(b) \div 100) + 1}}
    ELSE {}

\* SequenceMatcher(None, a, b): the two sequences and what __chain_b derives.
SequenceMatcher(a, b) == [a |-> a, b |-> b, bpopular |-> bpopular(b)]

\* Mutant of j2len: the run length is not carried over from j2len[j - 1].
j2lenNoCarry(sm, r, i, j) ==
    IF At(sm.a, i) = At(sm.b, j) /\ At(sm.b, j) \notin sm.bpopular THEN 1 ELSE 0

RECURSIVE j2len(_, _, _, _)
\* newj2len[j] while find_longest_match scans row i: the length of the run of
\* matches, through b2j, that ends at a[i], b[j]; 0 when j is not in the row.
j2len(sm, r, i, j) ==
    IF At(sm.a, i) = At(sm.b, j) /\ At(sm.b, j) \notin sm.bpopular
    THEN 1 + (IF i > r.alo /\ j > r.blo THEN j2len(sm, r, i - 1, j - 1) ELSE 0)
    ELSE 0

RECURSIVE ScanFrom(_, _, _, _)
\* The double loop of find_longest_match over i in range(alo, ahi) and the
\* indices j of b2j[a[i]] with blo <= j < bhi, in increasing order.
ScanFrom(sm, r, ij, best) ==
    IF ij[1] >= r.ahi THEN best
    ELSE IF ij[2] >= r.bhi THEN ScanFrom(sm, r, <<ij[1] + 1, r.blo>>, best)
    ELSE LET k == j2len(sm, r, ij[1], ij[2]) IN
         ScanFrom(sm, r, <<ij[1], ij[2] + 1>>,
                  IF k > best.size
                  THEN [a |-> ij[1] - k + 1, b |-> ij[2] - k + 1, size |-> k]
                  ELSE best)

RECURSIVE ExtendBack(_, _, _)
\* First "while" after the scan: extend over equal elements before the block
\* (no element is junk since isjunk is None).
ExtendBack(sm, r, m) ==
    IF m.a > r.alo /\ m.b > r.blo /\ At(sm.a, m.a - 1) = At(sm.b, m.b - 1)
    THEN ExtendBack(sm, r, [a |-> m.a - 1, b |-> m.b - 1, size |-> m.size + 1])
    ELSE m

RECURSIVE ExtendFwd(_, _, _)
\* Second "while": extend over equal elements after the block.
ExtendFwd(sm, r, m) ==
    IF m.a + m.size < r.ahi /\ m.b + m.size < r.bhi
       /\ At(sm.a, m.a + m.size) = At(sm.b, m.b + m.size)
    THEN ExtendFwd(sm, r, [m EXCEPT !.size = m.size + 1])
    ELSE m

find_longest_match(sm, r) ==
    ExtendFwd(sm, r,
        ExtendBack(sm, r,
            ScanFrom(sm, r, <<r.alo, r.blo>>, [a |-> r.alo, b |-> r.blo, size |-> 0])))

Range(alo, ahi, blo, bhi) == [alo |-> alo, ahi |-> ahi, blo |-> blo, bhi |-> bhi]

\* The two queue.append calls of get_matching_blocks, in order.
PushSides(queue, r, x) ==
    LET q1 == IF r.alo < x.a /\ r.blo < x.b
              THEN Append(queue, Range(r.alo, x.a, r.blo, x.b)) ELSE queue
    IN IF x.a + x.size < r.ahi /\ x.b + x.size < r.bhi
       THEN Append(q1, Range(x.a + x.size, r.ahi, x.b + x.size, r.bhi)) ELSE q1

RECURSIVE QueueLoop(_, _, _)
\* "while queue:" of get_matching_blocks; queue.pop() takes the last element.
QueueLoop(sm, queue, matching_blocks) ==
    IF queue = <<>> THEN matching_blocks
    ELSE LET r == queue[Len(queue)]
             rest == SubSeq(queue, 1, Len(queue) - 1)
             x == find_longest_match(sm, r)
         IN IF x.size # 0
            THEN QueueLoop(sm, PushSides(rest, r, x), Append(matching_blocks, x))
            ELSE QueueLoop(sm, rest, matching_blocks)

\* Tuple order of Match(a, b, size).
MatchLess(x, y) ==
    \/ x.a < y.a
    \/ x.a = y.a /\ x.b < y.b
    \/ x.a = y.a /\ x.b = y.b /\ x.size < y.size

RECURSIVE InsertSorted(_, _)
InsertSorted(sorted, x) ==
    IF sorted = <<>> THEN <<x>>
    ELSE IF MatchLess(x, Head(sorted)) THEN <<x>> \o sorted
    ELSE <<Head(sorted)>> \o InsertSorted(Tail(sorted), x)

RECURSIVE SortBlocks(_)
\* matching_blocks.sort()
SortBlocks(blocks) ==
    IF blocks = <<>> THEN <<>>
    ELSE InsertSorted(SortBlocks(SubSeq(blocks, 1, Len(blocks) - 1)), blocks[Len(blocks)])

RECURSIVE Collapse(_, _, _)
\* The loop collapsing adjacent equal blocks; cur is (i1, j1, k1).
Collapse(blocks, cur, non_adjacent) ==
    IF blocks = <<>>
    THEN IF cur.size # 0 THEN Append(non_adjacent, cur) ELSE non_adjacent
    ELSE LET x == Head(blocks) IN
         IF cur.a + cur.size = x.a /\ cur.b + cur.size = x.b
         THEN Collapse(Tail(blocks), [cur EXCEPT !.size = cur.size + x.size], non_adjacent)
         ELSE Collapse(Tail(blocks), x,
                       IF cur.size # 0 THEN Append(non_adjacent, cur) ELSE non_adjacent)

get_matching_blocks(sm) ==
    Append(Collapse(SortBlocks(QueueLoop(sm, <<Range(0, Len(sm.a), 0, Len(sm.b))>>, <<>>)),
                    [a |-> 0, b |-> 0, size |-> 0], <<>>),
           [a |-> Len(sm.a), b |-> Len(sm.b), size |-> 0])

Op(tag, i1, i2, j1, j2) == [tag |-> tag, i1 |-> i1, i2 |-> i2, j1 |-> j1, j2 |-> j2]

\* Mutant of GapTag: the branch "elif j < bj: tag = 'insert'" is missing.
GapTagNoInsert(i, j, ai, bj) ==
    IF i < ai /\ j < bj THEN "replace"
    ELSE IF i < ai THEN "delete"
    ELSE ""

\* Mutant of GapTag: every gap is tagged 'replace'.
GapTagReplaceOnly(i, j, ai, bj) ==
    IF i < ai \/ j < bj THEN "replace"
    ELSE ""

\* The tag get_opcodes gives the gap between (i, j) and the next block.
GapTag(i, j, ai, bj) ==
    IF i < ai /\ j < bj THEN "replace"
    ELSE IF i < ai THEN "delete"
    ELSE IF j < bj THEN "insert"
    ELSE ""

\* "if tag: answer.append((tag, i, ai, j, bj))"
AppendGap(answer, i, j, x) ==
    IF GapTag(i, j, x.a, x.b) # ""
    THEN Append(answer, Op(GapTag(i, j, x.a, x.b), i, x.a, j, x.b))
    ELSE answer

\* Mutant of AppendEqual: the guard "if size:" is missing.
AppendEqualAlways(answer, x) ==
    Append(answer, Op("equal", x.a, x.a + x.size, x.b, x.b + x.size))

\* "if size: answer.append(('equal', ai, i, bj, j))"
AppendEqual(answer, x) ==
    IF x.size # 0
    THEN Append(answer, Op("equal", x.a, x.a + x.size, x.b, x.b + x.size))
    ELSE answer

RECURSIVE OpcodeLoop(_, _, _, _)
\* "for ai, bj, size in self.get_matching_blocks():" of get_opcodes
OpcodeLoop(blocks, i, j, answer) ==
    IF blocks = <<>> THEN answer
    ELSE LET x == Head(blocks) IN
         OpcodeLoop(Tail(blocks), x.a + x.size, x.b + x.size,
                    AppendEqual(AppendGap(answer, i, j, x), x))

get_opcodes(sm) == OpcodeLoop(get_matching_blocks(sm), 0, 0, <<>>)

(***************************************************************************)
(* Rendering of word_level_diff and word_level_diff_html                   *)
(***************************************************************************)
\* class Colors as defined, and after Colors.disable().
ColorsEnabled ==
    [RED |-> <<"ESC[91m">>, GREEN |-> <<"ESC[92m">>, YELLOW |-> <<"ESC[93m">>,
     BLUE |-> <<"ESC[94m">>, CYAN |-> <<"ESC[96m">>, BOLD |-> <<"ESC[1m">>,
     DIM |-> <<"ESC[2m">>, STRIKETHROUGH |-> <<"ESC[9m">>, RESET |-> <<"ESC[0m">>]
ColorsDisabled ==
    [RED |-> <<>>, GREEN |-> <<>>, YELLOW |-> <<>>, BLUE |-> <<>>, CYAN |-> <<>>,
     BOLD |-> <<>>, DIM |-> <<>>, STRIKETHROUGH |-> <<>>, RESET |-> <<>>]

\* f"{Colors.RED}{Colors.STRIKETHROUGH}[-{deleted}-]{Colors.RESET}"
DeletedPiece(col, deleted) ==
    col.RED \o col.STRIKETHROUGH \o <<"[", "-">> \o deleted \o <<"-", "]">> \o col.RESET
\* f"{Colors.GREEN}{{+{inserted}+}}{Colors.RESET}"
InsertedPiece(col, inserted) ==
    col.GREEN \o <<"{", "+">> \o inserted \o <<"+", "}">> \o col.RESET

\* Mutant of RenderOp: for 'replace' the inserted piece is appended before
\* the deleted one.
RenderOpInsertFirst(col, op, a, b) ==
    IF op.tag = "equal" THEN Join(Slice(a, op.i1, op.i2))
    ELSE IF op.tag = "delete" THEN DeletedPiece(col, Join(Slice(a, op.i1, op.i2)))
    ELSE IF op.tag = "insert" THEN InsertedPiece(col, Join(Slice(b, op.j1, op.j2)))
    ELSE IF op.tag = "replace"
    THEN InsertedPiece(col, Join(Slice(b, op.j1, op.j2)))
         \o DeletedPiece(col, Join(Slice(a, op.i1, op.i2)))
    ELSE <<>>

\* What one opcode appends to result in word_level_diff.
RenderOp(col, op, a, b) ==
    IF op.tag = "equal" THEN Join(Slice(a, op.i1, op.i2))
    ELSE IF op.tag = "delete" THEN DeletedPiece(col, Join(Slice(a, op.i1, op.i2)))
    ELSE IF op.tag = "insert" THEN InsertedPiece(col, Join(Slice(b, op.j1, op.j2)))
    ELSE IF op.tag = "replace"
    THEN DeletedPiece(col, Join(Slice(a, op.i1, op.i2)))
         \o InsertedPiece(col, Join(Slice(b, op.j1, op.j2)))
    ELSE <<>>

RECURSIVE Render(_, _, _, _)
Render(col, ops, a, b) ==
    IF ops = <<>> THEN <<>>
    ELSE RenderOp(col, Head(ops), a, b) \o Render(col, Tail(ops), a, b)

\* html.escape(s) with quote=True, one character at a time.
EscapeChar(ch) ==
    IF ch = "&" THEN <<"&", "a", "m", "p", ";">>
    ELSE IF ch = "<" THEN <<"&", "l", "t", ";">>
    ELSE IF ch = ">" THEN <<"&", "g", "t", ";">>
    ELSE IF ch = "\"" THEN <<"&", "q", "u", "o", "t", ";">>
    ELSE IF ch = "'" THEN <<"&", "#", "x", "2", "7", ";">>
    ELSE <<ch>>

RECURSIVE HtmlEscape(_)
HtmlEscape(str) ==
    IF str = <<>> THEN <<>> ELSE EscapeChar(Head(str)) \o HtmlEscape(Tail(str))

DelTag(deleted) == <<"<del>">> \o deleted \o <<"</del>">>
InsTag(inserted) == <<"<ins>">> \o inserted \o <<"</ins>">>

\* What one opcode appends to result in word_level_diff_html.
RenderOpHtml(op, a, b) ==
    IF op.tag = "equal" THEN HtmlEscape(Join(Slice(a, op.i1, op.i2)))
    ELSE IF op.tag = "delete" THEN DelTag(HtmlEscape(Join(Slice(a, op.i1, op.i2))))
    ELSE IF op.tag = "insert" THEN InsTag(HtmlEscape(Join(Slice(b, op.j1, op.j2))))
    ELSE IF op.tag = "replace"
    THEN DelTag(HtmlEscape(Join(Slice(a, op.i1, op.i2))))
         \o InsTag(HtmlEscape(Join(Slice(b, op.j1, op.j2))))
    ELSE <<>>

RECURSIVE RenderHtml(_, _, _)
RenderHtml(ops, a, b) ==
    IF ops = <<>> THEN <<>>
    ELSE RenderOpHtml(Head(ops), a, b) \o RenderHtml(Tail(ops), a, b)

(***************************************************************************)
(* parse_srt                                                               *)
(***************************************************************************)
RECURSIVE LStrip(_)
LStrip(str) == IF str # <<>> /\ IsSpace(Head(str)) THEN LStrip(Tail(str)) ELSE str

RECURSIVE RStrip(_)
RStrip(str) ==
    IF str # <<>> /\ IsSpace(str[Len(str)]) THEN RStrip(SubSeq(str, 1, Len(str) - 1)) ELSE str

\* str.strip()
Strip(str) == RStrip(LStrip(str))

RECURSIVE SkipNewlines(_, _)
\* The end of the run of line feeds that starts at position k.
SkipNewlines(str, k) ==
    IF k < Len(str) /\ At(str, k) = NL THEN SkipNewlines(str, k + 1) ELSE k

\* The least element of a non-empty set of positions.
First(positions) == CHOOSE k \in positions : \A m \in positions : k <= m

RECURSIVE SplitBlocks(_)
\* re.split(r'\n\n+', str): cut at the leftmost run of two or more line
\* feeds, then split what follows the run.
SplitBlocks(str) ==
    LET runs == {k \in 0..(Len(str) - 2) : At(str, k) = NL /\ At(str, k + 1) = NL} IN
    IF runs = {} THEN <<str>>
    ELSE <<Slice(str, 0, First(runs))>>
         \o SplitBlocks(Slice(str, SkipNewlines(str, First(runs)), Len(str)))

RECURSIVE SplitLines(_)
\* str.split('\n')
SplitLines(str) ==
    LET feeds == {k \in 0..(Len(str) - 1) : At(str, k) = NL} IN
    IF feeds = {} THEN <<str>>
    ELSE <<Slice(str, 0, First(feeds))>>
         \o SplitLines(Slice(str, First(feeds) + 1, Len(str)))

RECURSIVE JoinLines(_)
\* '\n'.join(lines)
JoinLines(lines) ==
    IF lines = <<>> THEN <<>>
    ELSE IF Len(lines) = 1 THEN lines[1]
    ELSE lines[1] \o <<NL>> \o JoinLines(Tail(lines))

DigitValue(ch) == CHOOSE v \in 0..9 : ToString(v) = ch

RECURSIVE DigitsValue(_, _, _)
\* The value of str[k:] read as decimal digits with single underscores
\* between digits, after acc; -1 when str[k:] is not of that form.
DigitsValue(str, k, acc) ==
    IF k >= Len(str) THEN acc
    ELSE IF At(str, k) \in Digits
    THEN DigitsValue(str, k + 1, acc * 10 + DigitValue(At(str, k)))
    ELSE IF At(str, k) = "_" /\ k > 0 /\ At(str, k - 1) \in Digits
            /\ k + 1 < Len(str) /\ At(str, k + 1) \in Digits
    THEN DigitsValue(str, k + 1, acc)
    ELSE -1

\* int(str): surrounding whitespace, an optional sign, decimal digits.
\* [ok |-> FALSE] stands for ValueError.
int(str) ==
    LET t == Strip(str)
        signed == t # <<>> /\ t[1] \in {"+", "-"}
        body == IF signed THEN Tail(t) ELSE t
        v == DigitsValue(body, 0, 0)
    IN IF body = <<>> \/ body[1] \notin Digits \/ v < 0
       THEN [ok |-> FALSE, value |-> 0]
       ELSE [ok |-> TRUE, value |-> IF signed /\ t[1] = "-" THEN 0 - v ELSE v]

\* \d{2}:\d{2}:\d{2},\d{3} at position k of line
IsTimestampAt(line, k) ==
    /\ k + 12 <= Len(line)
    /\ \A d \in 0..11 :
          IF d \in {2, 5} THEN At(line, k + d) = ":"
          ELSE IF d = 8 THEN At(line, k + d) = ","
          ELSE At(line, k + d) \in Digits

RECURSIVE SkipSpaces(_, _)
\* \s* from position k: the position after the whitespace.
SkipSpaces(line, k) ==
    IF k < Len(line) /\ IsSpace(At(line, k)) THEN SkipSpaces(line, k + 1) ELSE k

IsArrowAt(line, k) ==
    /\ k + 3 <= Len(line)
    /\ At(line, k) = "-" /\ At(line, k + 1) = "-" /\ At(line, k + 2) = ">"

NoMatch == [matched |-> FALSE, group1 |-> <<>>, group2 |-> <<>>]

\* Mutant of timestamp_match: the second group opens before the "\s*" that
\* follows the arrow, so it keeps that whitespace.
timestamp_match_wide_group(line) ==
    IF ~IsTimestampAt(line, 0) THEN NoMatch
    ELSE LET arrow == SkipSpaces(line, 12) IN
         IF ~IsArrowAt(line, arrow) THEN NoMatch
         ELSE LET second == SkipSpaces(line, arrow + 3) IN
              IF ~IsTimestampAt(line, second) THEN NoMatch
              ELSE [matched |-> TRUE,
                    group1 |-> Slice(line, 0, 12),
                    group2 |-> Slice(line, arrow + 3, second + 12)]

\* re.match(r'(\d{2}:\d{2}:\d{2},\d{3})\s*-->\s*(\d{2}:\d{2}:\d{2},\d{3})', line)
timestamp_match(line) ==
    IF ~IsTimestampAt(line, 0) THEN NoMatch
    ELSE LET arrow == SkipSpaces(line, 12) IN
         IF ~IsArrowAt(line, arrow) THEN NoMatch
         ELSE LET second == SkipSpaces(line, arrow + 3) IN
              IF ~IsTimestampAt(line, second) THEN NoMatch
              ELSE [matched |-> TRUE,
                    group1 |-> Slice(line, 0, 12),
                    group2 |-> Slice(line, second, second + 12)]

RECURSIVE IntDigits(_)
\* The decimal digits of n >= 0.
IntDigits(n) ==
    IF n < 10 THEN <<ToString(n)>> ELSE IntDigits(n \div 10) \o <<ToString(n % 10)>>

\* str(n), as an f-string formats an index: f"[{orig.index}]"
IntToStr(n) == IF n < 0 THEN <<"-">> \o IntDigits(0 - n) ELSE IntDigits(n)

\* Mutant of SubtitleEntry: the raw timing line kept is cut after the first
\* timestamp.
SubtitleEntryRawStart(index, start_time, end_time, text, raw_timestamp_line) ==
    [index |-> index, start_time |-> start_time, end_time |-> end_time,
     text |-> text, raw_timestamp_line |-> SubSeq(raw_timestamp_line, 1, 12)]

SubtitleEntry(index, start_time, end_time, text, raw_timestamp_line) ==
    [index |-> index, start_time |-> start_time, end_time |-> end_time,
     text |-> text, raw_timestamp_line |-> raw_timestamp_line]

\* The body of "for block in blocks:": the entries with what the block adds.
ParseBlock(entries, block) ==
    LET lines == SplitLines(Strip(block)) IN
    IF Len(lines) < 2 THEN entries
    ELSE LET index == int(Strip(lines[1])) IN
         IF ~index.ok THEN entries
         ELSE LET timestamp_line == Strip(lines[2])
                  m == timestamp_match(timestamp_line)
              IN IF ~m.matched THEN entries
                 ELSE Append(entries,
                             SubtitleEntry(index.value, m.group1, m.group2,
                                           IF Len(lines) > 2
                                           THEN JoinLines(SubSeq(lines, 3, Len(lines)))
                                           ELSE <<>>,
                                           timestamp_line))

RECURSIVE ParseBlocks(_, _)
ParseBlocks(blocks, entries) ==
    IF blocks = <<>> THEN entries
    ELSE ParseBlocks(Tail(blocks), ParseBlock(entries, Head(blocks)))

\* open(filepath, 'r', encoding='utf-8').read(): text mode reads "\r\n" and
\* a lone "\r" as "\n" (universal newlines).
ReadText(raw) ==
    LET withPrev == [k \in 1..Len(raw) |-> <<raw[k], IF k > 1 THEN raw[k - 1] ELSE "">>]
        kept == SelectSeq(withPrev, LAMBDA c : ~(c[1] = NL /\ c[2] = CR))
    IN [k \in 1..Len(kept) |-> IF kept[k][1] = CR THEN NL ELSE kept[k][1]]

\* parse_srt, from the characters stored in the file
parse_srt(raw) == ParseBlocks(SplitBlocks(Strip(ReadText(raw))), <<>>)

(***************************************************************************)
(* validate_correction                                                     *)
(*                                                                         *)
(* An issue is [text, pos, check]: text is the formatted message, as the   *)
(* tuple of its fixed wording and its interpolated values; pos and check   *)
(* record the loop iteration and the check that appended it.               *)
(***************************************************************************)
Issue(text, pos, check) == [text |-> text, pos |-> pos, check |-> check]

CountIssue(original_list, corrected_list) ==
    Issue(<<"Entry count mismatch", Len(original_list), Len(corrected_list)>>, -1, "count")

\* "if orig.index != corr.index:"
IndexIssue(i, orig, corr) ==
    IF orig.index # corr.index
    THEN <<Issue(<<"Entry", i + 1, "Index mismatch", orig.index, corr.index>>, i, "index")>>
    ELSE <<>>

\* "if orig.start_time != corr.start_time:"
StartIssue(i, orig, corr) ==
    IF orig.start_time # corr.start_time
    THEN <<Issue(<<"Entry", orig.index, "Start time changed",
                   orig.start_time, corr.start_time>>, i, "start")>>
    ELSE <<>>

\* "if orig.end_time != corr.end_time:"
EndIssue(i, orig, corr) ==
    IF orig.end_time # corr.end_time
    THEN <<Issue(<<"Entry", orig.index, "End time changed",
                   orig.end_time, corr.end_time>>, i, "end")>>
    ELSE <<>>

\* Mutant of RawLineIssue: the raw timing lines are not compared.
RawLineIssueNever(i, orig, corr) == <<>>

\* "if orig.raw_timestamp_line != corr.raw_timestamp_line:"
RawLineIssue(i, orig, corr) ==
    IF orig.raw_timestamp_line # corr.raw_timestamp_line
    THEN <<Issue(<<"Entry", orig.index, "Timestamp line formatting changed">>, i, "raw")>>
    ELSE <<>>

\* Mutant of EntryIssues: the checks are chained with "elif", so the first
\* failing check hides the others.
EntryIssuesFirstOnly(i, orig, corr) ==
    IF IndexIssue(i, orig, corr) # <<>> THEN IndexIssue(i, orig, corr)
    ELSE IF StartIssue(i, orig, corr) # <<>> THEN StartIssue(i, orig, corr)
    ELSE IF EndIssue(i, orig, corr) # <<>> THEN EndIssue(i, orig, corr)
    ELSE RawLineIssue(i, orig, corr)

\* The four checks of one loop iteration, in order.
EntryIssues(i, orig, corr) ==
    IndexIssue(i, orig, corr) \o StartIssue(i, orig, corr)
        \o EndIssue(i, orig, corr) \o RawLineIssue(i, orig, corr)

RECURSIVE EntryLoop(_, _, _, _)
\* "for i, (orig, corr) in enumerate(zip(original, corrected)):"
EntryLoop(original_list, corrected_list, i, issues_acc) ==
    IF i >= Len(original_list) \/ i >= Len(corrected_list) THEN issues_acc
    ELSE EntryLoop(original_list, corrected_list, i + 1,
                   issues_acc \o EntryIssues(i, At(original_list, i), At(corrected_list, i)))

\* Mutant of Validate: no "return False, issues" after the count check.
ValidateNoReturn(original_list, corrected_list) ==
    LET found == (IF Len(original_list) # Len(corrected_list)
                  THEN <<CountIssue(original_list, corrected_list)>> ELSE <<>>)
                 \o EntryLoop(original_list, corrected_list, 0, <<>>)
    IN [is_valid |-> Len(found) = 0, issues |-> found]

\* validate_correction after the two parse_srt calls: (is_valid, issues)
Validate(original_list, corrected_list) ==
    IF Len(original_list) # Len(corrected_list)
    THEN [is_valid |-> FALSE, issues |-> <<CountIssue(original_list, corrected_list)>>]
    ELSE LET found == EntryLoop(original_list, corrected_list, 0, <<>>) IN
         [is_valid |-> Len(found) = 0, issues |-> found]

(***************************************************************************)
(* show_diff, generate_html_diff and the pairing of main's --all listing   *)
(***************************************************************************)
Min(m, n) == IF m <= n THEN m ELSE n

\* seq[:n] for n >= 0
Take(seq, n) == SubSeq(seq, 1, Min(n, Len(seq)))

\* f"{orig.start_time} --> {orig.end_time}"
TimestampRange(entry) == entry.start_time \o <<SP, "-", "-", ">", SP>> \o entry.end_time

\* The string word_level_diff returns when the class Colors holds col after
\* its "if not use_color: Colors.disable()".
word_level_diff(orig_text, corr_text, col) ==
    LET a == tokenize(orig_text)
        b == tokenize(corr_text)
    IN Render(col, get_opcodes(SequenceMatcher(a, b)), a, b)

\* The string word_level_diff_html returns.
word_level_diff_html(orig_text, corr_text) ==
    LET a == tokenize(orig_text)
        b == tokenize(corr_text)
    IN RenderHtml(get_opcodes(SequenceMatcher(a, b)), a, b)

\* zip(original, corrected)
Zip(original_list, corrected_list) ==
    [k \in 1..Min(Len(original_list), Len(corrected_list)) |->
        <<original_list[k], corrected_list[k]>>]

\* The dict show_diff appends for a pair whose texts differ.
DiffEntry(orig, corr) ==
    [index |-> orig.index, timestamp |-> TimestampRange(orig),
     original |-> orig.text, corrected |-> corr.text]

\* show_diff after the two parse_srt calls: diffs
show_diff(original_list, corrected_list) ==
    LET changed == SelectSeq(Zip(original_list, corrected_list),
                             LAMBDA pair : pair[1].text # pair[2].text)
    IN [k \in 1..Len(changed) |-> DiffEntry(changed[k][1], changed[k][2])]

\* corr_map.get(index) for corr_map = {e.index: e for e in corrected}: the
\* last entry of corrected with that index as <<entry>>, and <<>> for None.
CorrMapGet(corrected_list, index) ==
    LET ks == {k \in 1..Len(corrected_list) : corrected_list[k].index = index} IN
    IF ks = {} THEN <<>>
    ELSE <<corrected_list[CHOOSE k \in ks : \A m \in ks : m <= k]>>

\* "corr and orig.text != corr.text"
IsChanged(orig, corr) == corr # <<>> /\ orig.text # corr[1].text

\* The row generate_html_diff appends for orig.
HtmlRow(orig, corr) ==
    [index |-> orig.index,
     timestamp |-> TimestampRange(orig),
     original |-> HtmlEscape(orig.text),
     corrected |-> IF corr # <<>> THEN HtmlEscape(corr[1].text) ELSE <<>>,
     diff |-> IF IsChanged(orig, corr)
              THEN word_level_diff_html(orig.text, corr[1].text)
              ELSE HtmlEscape(orig.text),
     changed |-> IsChanged(orig, corr)]

\* generate_html_diff after the two parse_srt calls: the rows of the report
\* it writes, and the pair (len(original), changed_count) it returns.
generate_html_diff(original_list, corrected_list) ==
    LET html_rows == [k \in 1..Len(original_list) |->
                         HtmlRow(original_list[k],
                                 CorrMapGet(corrected_list, original_list[k].index))]
    IN [rows |-> html_rows,
        total |-> Len(original_list),
        changed |-> Len(SelectSeq(html_rows, LAMBDA row : row.changed))]

\* changed_count of main's --all listing
AllChangedCount(original_list, corrected_list) ==
    Len(SelectSeq(original_list,
                  LAMBDA o : IsChanged(o, CorrMapGet(corrected_list, o.index))))

(***************************************************************************)
(* analyze_file                                                            *)
(*                                                                         *)
(* A pattern of ERROR_PATTERNS is the sequence of its items (a character   *)
(* of a set, or "\s*") and the text of its negative lookahead, if any.     *)
(***************************************************************************)
Lit(ch) == [chars |-> {ch}, star |-> FALSE]
Class(chars) == [chars |-> chars, star |-> FALSE]
Spaces == [chars |-> Whitespace, star |-> TRUE]

ErrorPattern(pattern, items, notfollowed, suggestion, description) ==
    [pattern |-> pattern, items |-> items, notfollowed |-> notfollowed,
     suggestion |-> suggestion, description |-> description]

ERROR_PATTERNS == <<
    ErrorPattern("U+7ED8U+753B",
        <<Lit("U+7ED8"), Lit("U+753B")>>,
        <<>>, "U+4F1AU+8BDD", "session/conversation context"),
    ErrorPattern("U+6E90U+6570U+636E",
        <<Lit("U+6E90"), Lit("U+6570"), Lit("U+636E")>>,
        <<>>, "U+5143U+6570U+636E", "metadata"),
    ErrorPattern("U+672CU+79D1",
        <<Lit("U+672C"), Lit("U+79D1")>>,
        <<>>, "U+672CU+8BFE", "this lesson"),
    ErrorPattern("U+4E8BU+4F8B",
        <<Lit("U+4E8B"), Lit("U+4F8B")>>,
        <<>>, "U+793AU+4F8B", "example"),
    ErrorPattern("U+4E2DU+95F4U+952E",
        <<Lit("U+4E2D"), Lit("U+95F4"), Lit("U+952E")>>,
        <<>>, "U+4E2DU+95F4U+4EF6", "middleware"),
    ErrorPattern("U+8BE6U+7EC6",
        <<Lit("U+8BE6"), Lit("U+7EC6")>>,
        <<>>, "U+6D88U+606F", "message (context-dependent)"),
    ErrorPattern("[Ll]uncheon",
        <<Class({"L", "l"}), Lit("u"), Lit("n"), Lit("c"), Lit("h"), Lit("e"), Lit("o"), Lit("n")>>,
        <<>>, "langchain", "LangChain package"),
    ErrorPattern("U+84DD[U+72ACU+5377]",
        <<Lit("U+84DD"), Class({"U+72AC", "U+5377"})>>,
        <<>>, "LangChain", "LangChain framework"),
    ErrorPattern("[Ll]antern",
        <<Class({"L", "l"}), Lit("a"), Lit("n"), Lit("t"), Lit("e"), Lit("r"), Lit("n")>>,
        <<>>, "LangChain", "LangChain framework"),
    ErrorPattern("land\\s*GRAPH",
        <<Lit("l"), Lit("a"), Lit("n"), Lit("d"), Spaces, Lit("G"), Lit("R"), Lit("A"), Lit("P"), Lit("H")>>,
        <<>>, "langgraph", "LangGraph package"),
    ErrorPattern("LAN\\s*GRAPH",
        <<Lit("L"), Lit("A"), Lit("N"), Spaces, Lit("G"), Lit("R"), Lit("A"), Lit("P"), Lit("H")>>,
        <<>>, "langgraph", "LangGraph package"),
    ErrorPattern("open\\s*EI",
        <<Lit("o"), Lit("p"), Lit("e"), Lit("n"), Spaces, Lit("E"), Lit("I")>>,
        <<>>, "OpenAI", "OpenAI"),
    ErrorPattern("open\\s*Email",
        <<Lit("o"), Lit("p"), Lit("e"), Lit("n"), Spaces, Lit("E"), Lit("m"), Lit("a"), Lit("i"), Lit("l")>>,
        <<>>, "OpenAI", "OpenAI"),
    ErrorPattern("[Aa]\\s*memory\\s*[Ss]erver",
        <<Class({"A", "a"}), Spaces, Lit("m"), Lit("e"), Lit("m"), Lit("o"), Lit("r"), Lit("y"), Spaces, Class({"S", "s"}), Lit("e"), Lit("r"), Lit("v"), Lit("e"), Lit("r")>>,
        <<>>, "MemorySaver", "Memory component"),
    ErrorPattern("amneserver",
        <<Lit("a"), Lit("m"), Lit("n"), Lit("e"), Lit("s"), Lit("e"), Lit("r"), Lit("v"), Lit("e"), Lit("r")>>,
        <<>>, "MemorySaver", "Memory component"),
    ErrorPattern("check\\s*point(?!er)",
        <<Lit("c"), Lit("h"), Lit("e"), Lit("c"), Lit("k"), Spaces, Lit("p"), Lit("o"), Lit("i"), Lit("n"), Lit("t")>>,
        <<"e", "r">>, "checkpointer", "Checkpointer component"),
    ErrorPattern("Sharepoint",
        <<Lit("S"), Lit("h"), Lit("a"), Lit("r"), Lit("e"), Lit("p"), Lit("o"), Lit("i"), Lit("n"), Lit("t")>>,
        <<>>, "checkpointer", "Checkpointer component"),
    ErrorPattern("wrong\\s*time",
        <<Lit("w"), Lit("r"), Lit("o"), Lit("n"), Lit("g"), Spaces, Lit("t"), Lit("i"), Lit("m"), Lit("e")>>,
        <<>>, "runtime", "runtime"),
    ErrorPattern("confict",
        <<Lit("c"), Lit("o"), Lit("n"), Lit("f"), Lit("i"), Lit("c"), Lit("t")>>,
        <<>>, "config", "configuration")
>>

\* str starts with prefix at position k.
StartsWithAt(str, prefix, k) ==
    k + Len(prefix) <= Len(str) /\ Slice(str, k, k + Len(prefix)) = prefix

RECURSIVE MatchAt(_, _, _, _)
\* The items of p from the n-th on match str from position k on.
MatchAt(p, n, str, k) ==
    IF n > Len(p.items)
    THEN p.notfollowed = <<>> \/ ~StartsWithAt(str, p.notfollowed, k)
    ELSE IF p.items[n].star
    THEN \/ MatchAt(p, n + 1, str, k)
         \/ k < Len(str) /\ At(str, k) \in p.items[n].chars /\ MatchAt(p, n, str, k + 1)
    ELSE k < Len(str) /\ At(str, k) \in p.items[n].chars /\ MatchAt(p, n + 1, str, k + 1)

\* re.search(pattern, text) is not None
re_search(p, str) == \E k \in 0..Len(str) : MatchAt(p, 1, str, k)

UpperCase == <<"A", "B", "C", "D", "E", "F", "G", "H", "I", "J", "K", "L", "M",
               "N", "O", "P", "Q", "R", "S", "T", "U", "V", "W", "X", "Y", "Z">>
LowerCase == <<"a", "b", "c", "d", "e", "f", "g", "h", "i", "j", "k", "l", "m",
               "n", "o", "p", "q", "r", "s", "t", "u", "v", "w", "x", "y", "z">>

\* text.lower()
Lower(str) ==
    [k \in 1..Len(str) |->
        IF \E n \in 1..Len(UpperCase) : UpperCase[n] = str[k]
        THEN LowerCase[CHOOSE n \in 1..Len(UpperCase) : UpperCase[n] = str[k]]
        ELSE str[k]]

\* sub in str
Contains(str, sub) == \E k \in 0..Len(str) : StartsWithAt(str, sub, k)

PatternIssue(p) ==
    [pattern |-> p.pattern, suggestion |-> p.suggestion, description |-> p.description]

UnderscoreIssue ==
    [pattern |-> "underscore", suggestion |-> "_",
     description |-> "Likely a variable name with underscore"]

\* entry_issues for the text of one entry
EntryPatternIssues(text) ==
    LET matching == SelectSeq(ERROR_PATTERNS, LAMBDA p : re_search(p, text)) IN
    [k \in 1..Len(matching) |-> PatternIssue(matching[k])]
        \o (IF Contains(Lower(text), <<"u", "n", "d", "e", "r", "s", "c", "o", "r", "e">>)
            THEN <<UnderscoreIssue>> ELSE <<>>)

\* analyze_file after parse_srt: potential_issues
analyze_file(entries) ==
    LET items == [k \in 1..Len(entries) |->
                     [index |-> entries[k].index, timestamp |-> TimestampRange(entries[k]),
                      text |-> entries[k].text,
                      issues |-> EntryPatternIssues(entries[k].text)]]
    IN SelectSeq(items, LAMBDA item : item.issues # <<>>)

(***************************************************************************)
(* State                                                                   *)
(***************************************************************************)
VARIABLES
    original,           \* word_level_diff: the argument original
    corrected,          \* word_level_diff: the argument corrected
    Colors,             \* the class attributes of Colors (process-wide)
    orig_tokens,        \* tokenize(original) of the last call
    corr_tokens,        \* tokenize(corrected) of the last call
    opcodes,            \* matcher.get_opcodes() of the last call
    result,             \* the string the last call returned
    original_path,      \* the file at original_path: its blocks and separator
    corrected_path,     \* the file at corrected_path
    original_entries,   \* validate_correction: original = parse_srt(original_path)
    corrected_entries,  \* validate_correction: corrected = parse_srt(corrected_path)
    is_valid,           \* validate_correction: the verdict returned
    issues,             \* validate_correction: the issue list returned
    args,               \* main: the parsed command line (args of parse_args)
    diffs,              \* show_diff: the list returned
    rows,               \* generate_html_diff: the rows written to the report
    changed_count,      \* generate_html_diff, main --all: the changed entries
    potential_issues,   \* analyze_file: the list returned
    stdout,             \* main: what was printed, line by line
    exit_code,          \* the exit status of the process, -1 while it runs
    pc                  \* the function that returned last

diffVars == <<original, corrected, Colors, orig_tokens, corr_tokens, opcodes, result>>
validateVars == <<original_path, corrected_path, original_entries, corrected_entries,
                  is_valid, issues>>
mainVars == <<args, diffs, rows, changed_count, potential_issues, stdout, exit_code>>
vars == <<diffVars, validateVars, mainVars, pc>>

RECURSIVE SeqsUpTo(_, _)
\* All sequences over S of length at most n.
SeqsUpTo(S, n) ==
    IF n = 0 THEN {<<>>}
    ELSE LET shorter == SeqsUpTo(S, n - 1) IN
         shorter \cup {Append(t, ch) : t \in shorter, ch \in S}

\* The characters entry texts are drawn from: an ASCII letter, the space, a
\* line break (multi-line entries are joined by it) and a CJK ideograph.
TextChars == {"a", SP, NL, ZH1}
Texts == SeqsUpTo(TextChars, MaxTextLen)

(***************************************************************************)
(* SRT files                                                               *)
(*                                                                         *)
(* A file is its blocks, each a sequence of lines, and the separator       *)
(* written between two blocks; FileContent is the text read from it.       *)
(***************************************************************************)
\* The timestamp 00:00:0s,000
Timestamp(s) == <<"0", "0", ":", "0", "0", ":", "0", s, ",", "0", "0", "0">>
Arrow == <<"-", "-", ">">>

\* Timing lines: well formed; without the spaces around the arrow; with
\* another end; with another start; with characters after the second
\* timestamp; with a malformed arrow; with a two-digit millisecond field.
LineOk == Timestamp("1") \o <<SP>> \o Arrow \o <<SP>> \o Timestamp("2")
LineTight == Timestamp("1") \o Arrow \o Timestamp("2")
LineEnd == Timestamp("1") \o <<SP>> \o Arrow \o <<SP>> \o Timestamp("3")
LineStart == Timestamp("0") \o <<SP>> \o Arrow \o <<SP>> \o Timestamp("2")
LineTrailing == LineOk \o <<"x">>
LinePadded == <<SP>> \o LineOk \o <<SP>>
LineBadArrow == Timestamp("1") \o <<SP, "-", ">", SP>> \o Timestamp("2")
LineBadMillis == Timestamp("1") \o <<SP>> \o Arrow \o <<SP>> \o SubSeq(Timestamp("2"), 1, 11)

IndexLines == {<<"1">>, <<"2">>, <<"0", "1">>, <<"x">>}
TimingLines ==
    {LineOk, LineTight, LineEnd, LineStart, LineTrailing, LinePadded, LineBadArrow,
     LineBadMillis}
TextLines == {<<>>, <<<<ZH1>>>>, <<<<"a">>, <<ZH1>>>>}

\* The blocks of one-block files: every combination, and a lone index line.
Blocks ==
    {<<i, t>> \o x : i \in IndexLines, t \in TimingLines, x \in TextLines}
        \cup {<<<<"1">>>>}

\* The blocks of files of several blocks: two entries, the first of them
\* with its timing line respaced, and a block the parser skips.
SeriesBlocks ==
    {<<it[1], it[2], <<ZH1>>>> :
        it \in {<<<<"1">>, LineOk>>, <<<<"2">>, LineOk>>,
                 <<<<"1">>, LineTight>>, <<<<"1">>, LineBadArrow>>}}

\* What stands between two blocks, written with "\n" for a line end: one
\* empty line.
Separators == {<<NL, NL>>}

\* The line ends a file is stored with: LF, CRLF or CR.
LF == <<NL>>
CRLF == <<CR, NL>>
LineEnds == {LF, CRLF, <<CR>>}

SrtFile(blocks, sep, eol) == [blocks |-> blocks, sep |-> sep, eol |-> eol]
EmptyFile == SrtFile(<<>>, <<NL, NL>>, LF)

Files ==
    {SrtFile(b, sep, LF) : b \in SeqsUpTo(Blocks, 1), sep \in Separators}
        \cup {SrtFile(b, sep, LF) : b \in SeqsUpTo(SeriesBlocks, MaxBlocks), sep \in Separators}

RECURSIVE JoinBlocks(_, _)
JoinBlocks(blocks, sep) ==
    IF blocks = <<>> THEN <<>>
    ELSE IF Len(blocks) = 1 THEN JoinLines(blocks[1])
    ELSE JoinLines(blocks[1]) \o sep \o JoinBlocks(Tail(blocks), sep)

\* The text with every line end stored as eol.
WriteText(str, eol) ==
    IF eol = <<NL>> THEN str
    ELSE Join([k \in 1..Len(str) |-> IF str[k] = NL THEN eol ELSE <<str[k]>>])

\* The characters stored in the file: the blocks, separated, and a final
\* line end.
FileContent(file) == WriteText(JoinBlocks(file.blocks, file.sep) \o <<NL>>, file.eol)

\* No function of the program has been called.
DiffIdle ==
    /\ original = <<>>
    /\ corrected = <<>>
    /\ Colors = ColorsEnabled
    /\ orig_tokens = <<>>
    /\ corr_tokens = <<>>
    /\ opcodes = <<>>
    /\ result = <<>>
ValidateIdle ==
    /\ original_entries = <<>>
    /\ corrected_entries = <<>>
    /\ is_valid = FALSE
    /\ issues = <<>>
NoArgs == [command |-> ""]
MainIdle ==
    /\ args = NoArgs
    /\ diffs = <<>>
    /\ rows = <<>>
    /\ changed_count = 0
    /\ potential_issues = <<>>
    /\ stdout = <<>>
    /\ exit_code = -1

DiffInit ==
    /\ original \in Texts
    /\ corrected \in Texts
    /\ Colors = ColorsEnabled
    /\ orig_tokens = <<>>
    /\ corr_tokens = <<>>
    /\ opcodes = <<>>
    /\ result = <<>>
    /\ original_path = EmptyFile
    /\ corrected_path = EmptyFile
    /\ original_entries = <<>>
    /\ corrected_entries = <<>>
    /\ is_valid = FALSE
    /\ issues = <<>>
    /\ MainIdle
    /\ pc = "start"

\* word_level_diff(original, corrected, use_color)
WordLevelDiff(use_color) ==
    \E a \in {tokenize(original)}, b \in {tokenize(corrected)} :
    \E ops \in {get_opcodes(SequenceMatcher(a, b))} :
    LET col == IF ~use_color THEN ColorsDisabled ELSE Colors
    IN /\ Colors' = col
       /\ orig_tokens' = a
       /\ corr_tokens' = b
       /\ opcodes' = ops
       /\ result' = Render(col, ops, a, b)
       /\ pc' = "word_level_diff"
       /\ UNCHANGED <<original, corrected, validateVars, mainVars>>

\* word_level_diff_html(original, corrected)
WordLevelDiffHtml ==
    \E a \in {tokenize(original)}, b \in {tokenize(corrected)} :
    \E ops \in {get_opcodes(SequenceMatcher(a, b))} :
       /\ orig_tokens' = a
       /\ corr_tokens' = b
       /\ opcodes' = ops
       /\ result' = RenderHtml(ops, a, b)
       /\ pc' = "word_level_diff_html"
       /\ UNCHANGED <<original, corrected, Colors, validateVars, mainVars>>

\* One diff call per behaviour: the texts drawn by DiffInit, diffed once,
\* for the terminal with or without colors, or for the HTML report.
DiffTerminal == pc = "start" /\ \E use_color \in BOOLEAN : WordLevelDiff(use_color)
DiffHtml == pc = "start" /\ WordLevelDiffHtml

DiffNext == DiffTerminal \/ DiffHtml

DiffSpec == DiffInit /\ [][DiffNext]_vars

ValidateInit ==
    /\ original_path \in Files
    /\ corrected_path \in Files
    /\ original_entries = <<>>
    /\ corrected_entries = <<>>
    /\ is_valid = FALSE
    /\ issues = <<>>
    /\ original = <<>>
    /\ corrected = <<>>
    /\ Colors = ColorsEnabled
    /\ orig_tokens = <<>>
    /\ corr_tokens = <<>>
    /\ opcodes = <<>>
    /\ result = <<>>
    /\ MainIdle
    /\ pc = "start"

\* validate_correction(original_path, corrected_path)
ValidateCorrection ==
    LET original_list == parse_srt(FileContent(original_path))
        corrected_list == parse_srt(FileContent(corrected_path))
        verdict == Validate(original_list, corrected_list)
    IN /\ original_entries' = original_list
       /\ corrected_entries' = corrected_list
       /\ is_valid' = verdict.is_valid
       /\ issues' = verdict.issues
       /\ pc' = "validate_correction"
       /\ UNCHANGED <<original_path, corrected_path, diffVars, mainVars>>

\* One validation per behaviour: the files drawn by ValidateInit.
ValidateOnce == pc = "start" /\ ValidateCorrection

ValidateNext == ValidateOnce

ValidateSpec == ValidateInit /\ [][ValidateNext]_vars

(***************************************************************************)
(* One file, parsed once: well-formed blocks under every separator and     *)
(* line-end style.                                                         *)
(***************************************************************************)
WellFormedBlocks ==
    {<<i, t>> \o x : i \in {<<"1">>, <<"2">>, <<"0", "1">>},
                      t \in {LineOk, LineTight}, x \in TextLines}

\* One empty line, two empty lines, a line holding one space.
BlankLines == {<<NL, NL>>, <<NL, NL, NL>>, <<NL, SP, NL>>}

ParseFiles ==
    {SrtFile(b, sep, eol) :
        b \in SeqsUpTo(WellFormedBlocks, MaxBlocks), sep \in BlankLines, eol \in LineEnds}

ParseInit ==
    /\ original_path \in ParseFiles
    /\ corrected_path = EmptyFile
    /\ ValidateIdle
    /\ DiffIdle
    /\ MainIdle
    /\ pc = "start"

\* original = parse_srt(original_path)
ParseSrt ==
    /\ pc = "start"
    /\ original_entries' = parse_srt(FileContent(original_path))
    /\ pc' = "parse_srt"
    /\ UNCHANGED <<original_path, corrected_path, corrected_entries, is_valid, issues,
                   diffVars, mainVars>>

ParseNext == ParseSrt

ParseSpec == ParseInit /\ [][ParseNext]_vars

(***************************************************************************)
(* main: one command per process, on two files                             *)
(***************************************************************************)
\* The texts of the docstring example of word_level_diff, without its first
\* words: "Lantern" and "LangChain" in front of two ideographs.
Lantern == <<"L", "a", "n", "t", "e", "r", "n", ZH1, ZH2>>
LangChain == <<"L", "a", "n", "g", "C", "h", "a", "i", "n", ZH1, ZH2>>

\* Entry 1 with either text, and entry 2.
MainBlocks ==
    {<<<<"1">>, LineOk, Lantern>>, <<<<"1">>, LineOk, LangChain>>, <<<<"2">>, LineOk, Lantern>>}

\* A file that holds a byte which is not UTF-8.
UndecodableFile == SrtFile(<<<<<<"1">>, LineOk, <<BadByte>>>>>>, <<NL, NL>>, LF)

MainFiles ==
    {SrtFile(b, <<NL, NL>>, LF) : b \in SeqsUpTo(MainBlocks, MaxBlocks)}
        \cup {UndecodableFile}

\* f.read() returns: every byte of the file decodes as UTF-8.
Decodes(file) ==
    \A b \in 1..Len(file.blocks) : \A l \in 1..Len(file.blocks[b]) :
        \A k \in 1..Len(file.blocks[b][l]) : file.blocks[b][l][k] # BadByte

\* The values of --limit: one entry, and the default.
Limits == {1, 50}

ValidateArgs ==
    [command |-> "validate", original |-> "original.srt", corrected |-> "corrected.srt"]
DiffArgs(limit, no_color, simple, html, all) ==
    [command |-> "diff", original |-> "original.srt", corrected |-> "corrected.srt",
     limit |-> limit, no_color |-> no_color, simple |-> simple, html |-> html, all |-> all]
AnalyzeArgs == [command |-> "analyze", input |-> "original.srt", terms |-> "None"]
HelpArgs == [command |-> "None"]

MainInit ==
    /\ original_path \in MainFiles
    /\ corrected_path \in MainFiles
    /\ ValidateIdle
    /\ DiffIdle
    /\ MainIdle
    /\ pc = "start"

\* What no command of main changes.
MainFrame ==
    UNCHANGED <<original_path, corrected_path, original, corrected,
                orig_tokens, corr_tokens, opcodes, result>>

\* parse_srt raises UnicodeDecodeError and nothing catches it: the
\* interpreter prints the traceback and exits with status 1.
Raises(printed) ==
    /\ stdout' = printed
    /\ exit_code' = 1
    /\ pc' = "UnicodeDecodeError"
    /\ UNCHANGED <<original_entries, corrected_entries, is_valid, issues, Colors,
                   diffs, rows, changed_count, potential_issues>>

\* Mutant of ValidateExit: the verdict does not reach the exit status.
ValidateExitZero(valid) == 0

\* "sys.exit(0 if is_valid else 1)"
ValidateExit(valid) == IF valid THEN 0 ELSE 1

\* The lines the validate command prints after the verdict.
VerdictLines(valid, found) ==
    IF valid
    THEN <<<<"U+2705 Validation PASSED">>, <<"   - Entry counts match">>,
           <<"   - All timestamps preserved">>, <<"   - All indices preserved">>>>
    ELSE <<<<"U+274C Validation FAILED">>, <<"   Found ", Len(found), " issue(s):\n">>>>
         \o [k \in 1..Min(20, Len(found)) |-> <<"   - ", found[k].text>>]
         \o (IF Len(found) > 20
             THEN <<<<"   ... and ", Len(found) - 20, " more issues">>>> ELSE <<>>)

\* main, args.command == 'validate'
MainValidate ==
    /\ pc = "start"
    /\ args' = ValidateArgs
    /\ MainFrame
    /\ LET banner == <<<<"Validating: ", "corrected.srt">>,
                       <<"Against:    ", "original.srt", "\n">>>>
       IN IF ~(Decodes(original_path) /\ Decodes(corrected_path))
          THEN Raises(banner)
          ELSE \E original_list \in {parse_srt(FileContent(original_path))},
                  corrected_list \in {parse_srt(FileContent(corrected_path))} :
               \E verdict \in {Validate(original_list, corrected_list)} :
                  /\ original_entries' = original_list
                  /\ corrected_entries' = corrected_list
                  /\ is_valid' = verdict.is_valid
                  /\ issues' = verdict.issues
                  /\ stdout' = banner \o VerdictLines(verdict.is_valid, verdict.issues)
                  /\ exit_code' = ValidateExit(verdict.is_valid)
                  /\ pc' = "exit"
                  /\ UNCHANGED <<Colors, diffs, rows, changed_count, potential_issues>>

\* main, args.command == 'diff' with --html: generate_html_diff, then
\* "sys.exit(0)"
MainDiffHtml ==
    /\ pc = "start"
    /\ args' = DiffArgs(50, FALSE, FALSE, "report.html", FALSE)
    /\ MainFrame
    /\ IF ~(Decodes(original_path) /\ Decodes(corrected_path))
       THEN Raises(<<>>)
       ELSE \E original_list \in {parse_srt(FileContent(original_path))},
               corrected_list \in {parse_srt(FileContent(corrected_path))} :
            \E report \in {generate_html_diff(original_list, corrected_list)} :
               /\ original_entries' = original_list
               /\ corrected_entries' = corrected_list
               /\ rows' = report.rows
               /\ changed_count' = report.changed
               /\ stdout' = <<<<"U+2705 HTML diff report generated: ", "report.html">>,
                              <<"   Total entries: ", report.total>>,
                              <<"   Changed: ", report.changed>>,
                              <<"   Unchanged: ", report.total - report.changed>>,
                              <<"\n   Open in browser to view the full comparison.">>>>
               /\ exit_code' = 0
               /\ pc' = "exit"
               /\ UNCHANGED <<is_valid, issues, Colors, diffs, potential_issues>>

\* The head of the terminal report; title is its first line and count_line
\* the words around the count.
ReportHead(use_color, col, title, count_line, count) ==
    IF use_color
    THEN <<<<col.BOLD, title, col.RESET>>,
           <<col.DIM, "Original:  ", "original.srt", col.RESET>>,
           <<col.DIM, "Corrected: ", "corrected.srt", col.RESET>>,
           <<>>,
           <<count_line[1], col.CYAN, count, col.RESET, count_line[2]>>,
           <<col.DIM, "Legend: ", col.RED, "[-deleted-]", col.RESET, " ",
             col.GREEN, "{+added+}", col.RESET, "\n">>>>
    ELSE <<<<title>>,
           <<"Original:  ", "original.srt">>,
           <<"Corrected: ", "corrected.srt">>,
           <<>>,
           <<count_line[1], count, count_line[2]>>,
           <<"Legend: [-deleted-] {+added+}\n">>>>

\* What the --all loop prints for orig; after_call is Colors as the call of
\* word_level_diff leaves it.
AllEntryLines(orig, corr, use_color, col, after_call) ==
    <<IF use_color
      THEN <<IF IsChanged(orig, corr) THEN <<col.YELLOW, "*", col.RESET>> ELSE " ",
             " ", col.BLUE, "[", orig.index, "]", col.RESET, " ",
             col.DIM, orig.start_time, " --> ", orig.end_time, col.RESET>>
      ELSE <<IF IsChanged(orig, corr) THEN "*" ELSE " ",
             " [", orig.index, "] ", orig.start_time, " --> ", orig.end_time>>,
      IF IsChanged(orig, corr)
      THEN <<"    ", word_level_diff(orig.text, corr[1].text, after_call)>>
      ELSE IF use_color THEN <<"    ", col.DIM, orig.text, col.RESET>>
      ELSE <<"    ", orig.text>>,
      <<>>>>

\* main, args.command == 'diff' with --all
MainDiffAll(no_color, isatty, limit) ==
    /\ pc = "start"
    /\ args' = DiffArgs(limit, no_color, FALSE, "None", TRUE)
    /\ MainFrame
    /\ IF ~(Decodes(original_path) /\ Decodes(corrected_path))
       THEN Raises(<<>>)
       ELSE \E original_list \in {parse_srt(FileContent(original_path))},
               corrected_list \in {parse_srt(FileContent(corrected_path))} :
            LET use_color == ~no_color /\ isatty
                count == AllChangedCount(original_list, corrected_list)
                listed == Take(original_list, limit)
                after_call == IF use_color THEN Colors ELSE ColorsDisabled
                called == \E k \in 1..Len(listed) :
                              IsChanged(listed[k], CorrMapGet(corrected_list, listed[k].index))
            IN /\ original_entries' = original_list
               /\ corrected_entries' = corrected_list
               /\ changed_count' = count
               /\ stdout' =
                     ReportHead(use_color, Colors, "Subtitle Diff Report (Full)",
                                <<<<"Total entries: ", Len(original_list), ", Changed: ">>, "\n">>,
                                count)
                     \o Join([k \in 1..Len(listed) |->
                                 AllEntryLines(listed[k],
                                               CorrMapGet(corrected_list, listed[k].index),
                                               use_color, Colors, after_call)])
                     \o (IF Len(original_list) > limit
                         THEN <<<<"... and ", Len(original_list) - limit, " more entries">>>>
                         ELSE <<>>)
               /\ Colors' = IF called THEN after_call ELSE Colors
               /\ exit_code' = 0
               /\ pc' = "exit"
               /\ UNCHANGED <<is_valid, issues, diffs, rows, potential_issues>>

\* What the default loop prints for one element of diffs.
ChangedEntryLines(diff, use_color, simple, col, after_call) ==
    <<IF use_color
      THEN <<col.BLUE, "[", diff.index, "]", col.RESET, " ", col.DIM, diff.timestamp, col.RESET>>
      ELSE <<"[", diff.index, "] ", diff.timestamp>>>>
    \o (IF simple
        THEN IF use_color
             THEN <<<<"  ", col.RED, "- ", diff.original, col.RESET>>,
                    <<"  ", col.GREEN, "+ ", diff.corrected, col.RESET>>>>
             ELSE <<<<"  - ", diff.original>>, <<"  + ", diff.corrected>>>>
        ELSE <<<<"  ", word_level_diff(diff.original, diff.corrected, after_call)>>>>)
    \o <<<<>>>>

\* main, args.command == 'diff' without --html and --all: show_diff
MainDiffChanged(no_color, isatty, simple, limit) ==
    /\ pc = "start"
    /\ args' = DiffArgs(limit, no_color, simple, "None", FALSE)
    /\ MainFrame
    /\ IF ~(Decodes(original_path) /\ Decodes(corrected_path))
       THEN Raises(<<>>)
       ELSE \E original_list \in {parse_srt(FileContent(original_path))},
               corrected_list \in {parse_srt(FileContent(corrected_path))} :
            \E found \in {show_diff(original_list, corrected_list)} :
            LET use_color == ~no_color /\ isatty
                listed == Take(found, limit)
                after_call == IF use_color THEN Colors ELSE ColorsDisabled
            IN /\ original_entries' = original_list
               /\ corrected_entries' = corrected_list
               /\ diffs' = found
               /\ stdout' =
                     ReportHead(use_color, Colors, "Subtitle Diff Report",
                                <<"Found ", " text changes:\n">>, Len(found))
                     \o Join([k \in 1..Len(listed) |->
                                 ChangedEntryLines(listed[k], use_color, simple,
                                                   Colors, after_call)])
                     \o (IF Len(found) > limit
                         THEN <<<<"... and ", Len(found) - limit, " more changes">>>>
                         ELSE <<>>)
                     \o (IF use_color
                         THEN <<<<"\n", Colors.DIM,
                                  "Tip: Use --html report.html to generate a full HTML comparison report",
                                  Colors.RESET>>>>
                         ELSE <<>>)
               /\ Colors' = IF ~simple /\ listed # <<>> THEN after_call ELSE Colors
               /\ exit_code' = 0
               /\ pc' = "exit"
               /\ UNCHANGED <<is_valid, issues, rows, changed_count, potential_issues>>

\* What the analyze loop prints for one element of issues.
AnalyzeItemLines(item) ==
    <<<<"[", item.index, "] ", item.timestamp>>,
      <<"  Text: ", Take(item.text, 60), "...">>>>
    \o [k \in 1..Len(item.issues) |->
           <<"    U+2192 '", item.issues[k].pattern, "' might be '", item.issues[k].suggestion,
             "' (", item.issues[k].description, ")">>]
    \o <<<<>>>>

\* main, args.command == 'analyze' (without --terms)
MainAnalyze ==
    /\ pc = "start"
    /\ args' = AnalyzeArgs
    /\ MainFrame
    /\ IF ~Decodes(original_path)
       THEN Raises(<<>>)
       ELSE \E found \in {analyze_file(parse_srt(FileContent(original_path)))} :
            /\ potential_issues' = found
            /\ stdout' = <<<<"Found ", Len(found), " entries with potential issues:\n">>>>
                         \o Join([k \in 1..Min(30, Len(found)) |-> AnalyzeItemLines(found[k])])
                         \o (IF Len(found) > 30
                             THEN <<<<"... and ", Len(found) - 30,
                                      " more entries with potential issues">>>>
                             ELSE <<>>)
            /\ exit_code' = 0
            /\ pc' = "exit"
            /\ UNCHANGED <<original_entries, corrected_entries, is_valid, issues, Colors,
                           diffs, rows, changed_count>>

\* main without a command: parser.print_help()
MainHelp ==
    /\ pc = "start"
    /\ args' = HelpArgs
    /\ MainFrame
    /\ stdout' = <<<<"usage">>>>
    /\ exit_code' = 0
    /\ pc' = "exit"
    /\ UNCHANGED <<original_entries, corrected_entries, is_valid, issues, Colors,
                   diffs, rows, changed_count, potential_issues>>

MainDiffTerminal ==
    \E no_color \in BOOLEAN, isatty \in BOOLEAN, limit \in Limits :
        \/ MainDiffAll(no_color, isatty, limit)
        \/ \E simple \in BOOLEAN : MainDiffChanged(no_color, isatty, simple, limit)

MainNext == MainValidate \/ MainDiffHtml \/ MainDiffTerminal \/ MainAnalyze \/ MainHelp

MainSpec == MainInit /\ [][MainNext]_vars

(***************************************************************************)
(* word_level_diff and word_level_diff_html called any number of times in  *)
(* one process, on texts that differ by an insertion or by one word.       *)
(***************************************************************************)
\* Texts of ASCII words and ideographs, one character longer than Texts.
AlignChars == {"a", ZH1}
AlignPairs ==
    {<<o, c>> : o \in SeqsUpTo(AlignChars, MaxTextLen + 1),
                c \in SeqsUpTo(AlignChars, MaxTextLen + 1)}

\* One ASCII word replaced by another between a prefix and a suffix that
\* stay as they are.
ScenarioChars == {"b", SP, ZH1}
Words == {<<"a">>, <<"b">>}
ScenarioPairs ==
    {pair \in {<<prefix \o old \o suffix, prefix \o new \o suffix>> :
                  prefix \in SeqsUpTo(ScenarioChars, MaxTextLen - 1),
                  suffix \in SeqsUpTo(ScenarioChars, MaxTextLen - 1),
                  old \in Words, new \in Words} :
        pair[1] # pair[2]}

CallPairs == AlignPairs \cup ScenarioPairs \cup {<<Lantern, LangChain>>}

CallsInit ==
    /\ \E pair \in CallPairs : original = pair[1] /\ corrected = pair[2]
    /\ Colors = ColorsEnabled
    /\ orig_tokens = <<>>
    /\ corr_tokens = <<>>
    /\ opcodes = <<>>
    /\ result = <<>>
    /\ original_path = EmptyFile
    /\ corrected_path = EmptyFile
    /\ ValidateIdle
    /\ MainIdle
    /\ pc = "start"

\* The process calls one of the two functions, for the first time or again.
CallTerminal == \E use_color \in BOOLEAN : WordLevelDiff(use_color)
CallHtml == WordLevelDiffHtml

CallsNext == CallTerminal \/ CallHtml

CallsSpec == CallsInit /\ [][CallsNext]_vars

(***************************************************************************)
(* Properties of the tokenizer and the alignment                           *)
(***************************************************************************)
Diffed == pc \in {"word_level_diff", "word_level_diff_html"}

\* C1: concatenating the tokens of tokenize(T), in order, gives back T, for
\* every text T, whitespace other than the space included.
TokenizerLossless ==
    Diffed => Join(orig_tokens) = original /\ Join(corr_tokens) = corrected

RECURSIVE SpanConcat(_, _, _)
\* The concatenation of the spans of seq that the ops name on one side
\* (side "i" for the source, "j" for the target).
SpanConcat(ops, seq, side) ==
    IF ops = <<>> THEN <<>>
    ELSE (IF side = "i" THEN Slice(seq, Head(ops).i1, Head(ops).i2)
          ELSE Slice(seq, Head(ops).j1, Head(ops).j2))
         \o SpanConcat(Tail(ops), seq, side)

OpsContiguous(ops, la, lb) ==
    /\ ops = <<>> => la = 0 /\ lb = 0
    /\ ops # <<>> => /\ ops[1].i1 = 0 /\ ops[1].j1 = 0
                     /\ ops[Len(ops)].i2 = la /\ ops[Len(ops)].j2 = lb
    /\ \A k \in 1..Len(ops) : ops[k].i1 <= ops[k].i2 /\ ops[k].j1 <= ops[k].j2
    /\ \A k \in 2..Len(ops) : ops[k].i1 = ops[k - 1].i2 /\ ops[k].j1 = ops[k - 1].j2

\* C2: the source ranges of the ops start at 0, end at len(A) and are
\* contiguous, the target ranges likewise over B; the source-side spans
\* concatenate to A and the target-side spans to B.
AlignmentPartition ==
    Diffed =>
        /\ OpsContiguous(opcodes, Len(orig_tokens), Len(corr_tokens))
        /\ SpanConcat(opcodes, orig_tokens, "i") = orig_tokens
        /\ SpanConcat(opcodes, corr_tokens, "j") = corr_tokens

AlignmentPartitionWitness ==
    /\ pc = "word_level_diff"
    /\ Len(opcodes) >= 3
    /\ \E k \in 1..Len(opcodes) : opcodes[k].tag = "insert"
    /\ \E k \in 1..Len(opcodes) : opcodes[k].tag = "delete"

SelectOps(ops, tags) == SelectSeq(ops, LAMBDA op : op.tag \in tags)

\* The text carried by the source side of the diff and by its target side.
SourceText == Join(SpanConcat(SelectOps(opcodes, {"equal", "delete", "replace"}), orig_tokens, "i"))
TargetText == Join(SpanConcat(SelectOps(opcodes, {"equal", "insert", "replace"}), corr_tokens, "j"))

\* C3: the text of the Equal, Delete and Replace-source parts of the diff, in
\* op order, is the original text, and that of the Equal, Insert and
\* Replace-target parts is the corrected text, multi-line texts included.
DiffReconstructsTexts ==
    Diffed => SourceText = original /\ TargetText = corrected

RECURSIVE EqualCount(_)
\* The number of tokens the Equal ops cover.
EqualCount(ops) ==
    IF ops = <<>> THEN 0
    ELSE (IF Head(ops).tag = "equal" THEN Head(ops).i2 - Head(ops).i1 ELSE 0)
         + EqualCount(Tail(ops))

RECURSIVE LcsLen(_, _, _, _)
\* Length of a longest common subsequence of a[1..i] and b[1..j].
LcsLen(a, b, i, j) ==
    IF i = 0 \/ j = 0 THEN 0
    ELSE IF a[i] = b[j] THEN 1 + LcsLen(a, b, i - 1, j - 1)
    ELSE LET l == LcsLen(a, b, i - 1, j)
             u == LcsLen(a, b, i, j - 1)
         IN IF l >= u THEN l ELSE u

Lcs(a, b) == LcsLen(a, b, Len(a), Len(b))

\* Length of a longest run of consecutive tokens common to a and b.
LongestCommonRun(a, b) ==
    LET runs == {k \in 0..Len(a) :
                    \E i \in 1..(Len(a) - k + 1), j \in 1..(Len(b) - k + 1) :
                        SubSeq(a, i, i + k - 1) = SubSeq(b, j, j + k - 1)}
    IN CHOOSE k \in runs : \A m \in runs : m <= k

\* C4 as stated: the Equal ops cover as many tokens as a longest common
\* subsequence of A and B has.
MaximalMatching ==
    Diffed => EqualCount(opcodes) = Lcs(orig_tokens, corr_tokens)

\* C4 amended: the Equal ops never cover more tokens than a longest common
\* subsequence has (they may cover fewer), and, when B is shorter than the
\* autojunk threshold, at least as many as the longest common run has.
MatchingBounds ==
    Diffed =>
        /\ EqualCount(opcodes) <= Lcs(orig_tokens, corr_tokens)
        /\ Len(corr_tokens) < AutojunkMinLen =>
               EqualCount(opcodes) >= LongestCommonRun(orig_tokens, corr_tokens)

MatchingBoundsWitness ==
    /\ pc = "word_level_diff"
    /\ EqualCount(opcodes) >= 1
    /\ EqualCount(opcodes) < Lcs(orig_tokens, corr_tokens)

SingleEqual(n) == <<Op("equal", 0, n, 0, n)>>

\* C5 as stated: aligning a token sequence with itself, the empty sequence
\* included, yields exactly one op, Equal, spanning the whole sequence.
AlignmentIdentity ==
    (Diffed /\ orig_tokens = corr_tokens) => opcodes = SingleEqual(Len(orig_tokens))

\* C5 amended: aligning a non-empty token sequence with itself yields exactly
\* one op, Equal, spanning the whole sequence.
AlignmentIdentityNonEmpty ==
    (Diffed /\ orig_tokens = corr_tokens /\ orig_tokens # <<>>)
        => opcodes = SingleEqual(Len(orig_tokens))

AlignmentIdentityWitness ==
    /\ pc = "word_level_diff"
    /\ orig_tokens = corr_tokens
    /\ Len(orig_tokens) >= 3
    /\ opcodes = SingleEqual(Len(orig_tokens))

(***************************************************************************)
(* Properties of the validator and the parser                              *)
(***************************************************************************)
Validated == pc = "validate_correction"

SameStructure(orig, corr) ==
    /\ orig.index = corr.index
    /\ orig.start_time = corr.start_time
    /\ orig.end_time = corr.end_time
    /\ orig.raw_timestamp_line = corr.raw_timestamp_line

AllPairsSame ==
    /\ Len(original_entries) = Len(corrected_entries)
    /\ \A k \in 1..Len(original_entries) :
          SameStructure(original_entries[k], corrected_entries[k])

\* C6: the verdict is pass with no issue exactly when the two sequences have
\* the same length and every pair agrees on index, start, end and raw timing
\* line; otherwise it is fail with at least one issue.  A file validated
\* against an identical copy passes with no issue.
ValidatorVerdict ==
    Validated =>
        /\ AllPairsSame => is_valid /\ issues = <<>>
        /\ ~AllPairsSame => ~is_valid /\ issues # <<>>
        /\ original_path = corrected_path => is_valid /\ issues = <<>>

ValidatorVerdictWitness ==
    /\ Validated
    /\ is_valid
    /\ issues = <<>>
    /\ Len(original_entries) >= 1
    /\ original_entries[1].text # corrected_entries[1].text

\* C7: when the two sequences differ in length the verdict is fail and the
\* issue list is exactly the count-mismatch issue, whatever the entries hold.
CountShortCircuit ==
    (Validated /\ Len(original_entries) # Len(corrected_entries)) =>
        /\ ~is_valid
        /\ Len(issues) = 1
        /\ issues[1].check = "count"
        /\ issues[1].text = <<"Entry count mismatch",
                               Len(original_entries), Len(corrected_entries)>>

CountShortCircuitWitness ==
    /\ Validated
    /\ Len(original_entries) # Len(corrected_entries)
    /\ Len(original_entries) >= 1 /\ Len(corrected_entries) >= 1
    /\ ~SameStructure(original_entries[1], corrected_entries[1])
    /\ Len(issues) = 1

CheckRank(check) ==
    IF check = "index" THEN 1 ELSE IF check = "start" THEN 2
    ELSE IF check = "end" THEN 3 ELSE IF check = "raw" THEN 4 ELSE 0

FieldDiffers(check, orig, corr) ==
    \/ check = "index" /\ orig.index # corr.index
    \/ check = "start" /\ orig.start_time # corr.start_time
    \/ check = "end" /\ orig.end_time # corr.end_time
    \/ check = "raw" /\ orig.raw_timestamp_line # corr.raw_timestamp_line

\* The (position, field) pairs whose check fails.
FailingChecks ==
    {pf \in (0..(Len(original_entries) - 1)) \X {"index", "start", "end", "raw"} :
        FieldDiffers(pf[2], At(original_entries, pf[1]), At(corrected_entries, pf[1]))}

\* C8: for sequences of equal length the issue list holds exactly one issue
\* for every (position, field) whose check fails, ordered by position and,
\* within a position, index, start, end, raw timing line.
IndependentChecks ==
    (Validated /\ Len(original_entries) = Len(corrected_entries)) =>
        /\ Len(issues) = Cardinality(FailingChecks)
        /\ \A k \in 1..Len(issues) : <<issues[k].pos, issues[k].check>> \in FailingChecks
        /\ \A k \in 1..Len(issues) : \A l \in (k + 1)..Len(issues) :
              \/ issues[k].pos < issues[l].pos
              \/ /\ issues[k].pos = issues[l].pos
                 /\ CheckRank(issues[k].check) < CheckRank(issues[l].check)

IssuesAt(p) == SelectSeq(issues, LAMBDA issue : issue.pos = p)

IndependentChecksWitness ==
    /\ Validated
    /\ Len(original_entries) = Len(corrected_entries)
    /\ Len(original_entries) >= 2
    /\ Len(IssuesAt(0)) >= 2
    /\ Len(IssuesAt(1)) >= 1

\* The line is a timestamp, whitespace, the arrow, whitespace, a timestamp,
\* and nothing else.
IsTimingLine(line) ==
    /\ Len(line) >= 27
    /\ IsTimestampAt(line, 0)
    /\ IsTimestampAt(line, Len(line) - 12)
    /\ \E k \in 12..(Len(line) - 15) :
          /\ Slice(line, k, k + 3) = Arrow
          /\ \A w \in (12..(k - 1)) \cup ((k + 3)..(Len(line) - 13)) : IsSpace(At(line, w))

\* Two timing lines with the same two timestamps and different whitespace
\* around the arrow.
SpacingDrift(orig_line, corr_line) ==
    /\ IsTimingLine(orig_line) /\ IsTimingLine(corr_line)
    /\ Slice(orig_line, 0, 12) = Slice(corr_line, 0, 12)
    /\ Slice(orig_line, Len(orig_line) - 12, Len(orig_line))
         = Slice(corr_line, Len(corr_line) - 12, Len(corr_line))
    /\ orig_line # corr_line

DriftAt(p) ==
    /\ Validated
    /\ Len(original_entries) = Len(corrected_entries)
    /\ p < Len(original_entries)
    /\ SpacingDrift(At(original_entries, p).raw_timestamp_line,
                    At(corrected_entries, p).raw_timestamp_line)

\* C9: when a pair's timing lines have the same timestamps and different
\* whitespace around the arrow, the pair's start and end are equal,
\* validation fails, and the pair gets the timing-line-formatting issue and
\* no start or end issue: that issue alone when the pair's indices agree.
FormattingDrift ==
    \A p \in 0..(MaxBlocks - 1) :
        DriftAt(p) =>
            /\ At(original_entries, p).start_time = At(corrected_entries, p).start_time
            /\ At(original_entries, p).end_time = At(corrected_entries, p).end_time
            /\ ~is_valid
            /\ Len(SelectSeq(IssuesAt(p), LAMBDA issue : issue.check = "raw")) = 1
            /\ \A k \in 1..Len(IssuesAt(p)) : IssuesAt(p)[k].check \notin {"start", "end"}
            /\ At(original_entries, p).index = At(corrected_entries, p).index
                  => Len(IssuesAt(p)) = 1

FormattingDriftWitness ==
    /\ DriftAt(1)
    /\ At(original_entries, 1).index = At(corrected_entries, 1).index
    /\ Len(IssuesAt(1)) = 1
    /\ IssuesAt(1)[1].text
         = <<"Entry", At(original_entries, 1).index, "Timestamp line formatting changed">>

\* The line reads as an integer: an optional sign, then digits, single
\* underscores allowed between digits.
IsIntegerLine(line) ==
    LET t == Strip(line)
        body == IF t # <<>> /\ t[1] \in {"+", "-"} THEN Tail(t) ELSE t
    IN /\ body # <<>>
       /\ \A k \in 1..Len(body) : body[k] \in Digits \cup {"_"}
       /\ body[1] \in Digits /\ body[Len(body)] \in Digits
       /\ \A k \in 1..(Len(body) - 1) : ~(body[k] = "_" /\ body[k + 1] = "_")

\* The line begins with a timing line; anything may follow it.
BeginsWithTimingLine(line) ==
    \E n \in 27..Len(line) : IsTimingLine(Slice(line, 0, n))

\* The raw timing lines of the blocks that pass both checks, in block order,
\* for the whole-line (strict) or leading-part reading of the grammar.
RECURSIVE AcceptedLines(_, _)
AcceptedLines(blocks, strict) ==
    IF blocks = <<>> THEN <<>>
    ELSE LET b == Head(blocks)
             line == IF Len(b) >= 2 THEN Strip(b[2]) ELSE <<>>
             ok == /\ Len(b) >= 2
                   /\ IsIntegerLine(b[1])
                   /\ IF strict THEN IsTimingLine(line) ELSE BeginsWithTimingLine(line)
         IN (IF ok THEN <<line>> ELSE <<>>) \o AcceptedLines(Tail(blocks), strict)

RawLines(entries) == [k \in 1..Len(entries) |-> entries[k].raw_timestamp_line]

\* C10 as stated: the Records are, in order, those of the blocks whose first
\* line is an integer and whose second line is a timing line
\* '<timestamp> --> <timestamp>'; other blocks are skipped and the blocks
\* after them still parsed.
ParserAcceptance ==
    Validated =>
        /\ RawLines(original_entries) = AcceptedLines(original_path.blocks, TRUE)
        /\ RawLines(corrected_entries) = AcceptedLines(corrected_path.blocks, TRUE)

\* What the parser does accept (the part of C10 that holds of the code): the
\* Records are, in order, those of the blocks whose first line is an integer
\* and whose second line begins with a timing line, whatever follows the
\* second timestamp; other blocks are skipped and later blocks still parsed.
ParserAcceptancePrefix ==
    Validated =>
        /\ RawLines(original_entries) = AcceptedLines(original_path.blocks, FALSE)
        /\ RawLines(corrected_entries) = AcceptedLines(corrected_path.blocks, FALSE)

ParserAcceptancePrefixWitness ==
    /\ Validated
    /\ Len(original_path.blocks) = 2
    /\ AcceptedLines(<<original_path.blocks[1]>>, FALSE) = <<>>
    /\ Len(original_entries) = 1
    /\ original_entries[1].raw_timestamp_line = Strip(original_path.blocks[2][2])
    /\ \E k \in 1..Len(corrected_entries) :
          ~IsTimingLine(corrected_entries[k].raw_timestamp_line)

(***************************************************************************)
(* Properties of the parser on one file                                    *)
(***************************************************************************)
Parsed == pc = "parse_srt"

\* The lines a Record stands for: its index, its raw timing line and, when
\* it has any, its text, joined by line breaks.
RecordContent(entry) ==
    JoinLines(<<IntToStr(entry.index), entry.raw_timestamp_line>>
              \o (IF entry.text = <<>> THEN <<>> ELSE <<entry.text>>))

IsWellFormedBlock(block) ==
    Len(block) >= 2 /\ IsIntegerLine(block[1]) /\ IsTimingLine(block[2])

AllWellFormed(file) == \A k \in 1..Len(file.blocks) : IsWellFormedBlock(file.blocks[k])

\* The blank lines between the blocks are empty lines.
EmptyLineSeparated(file) == \A k \in 1..Len(file.sep) : file.sep[k] = NL

RoundTrips(entries, blocks) ==
    /\ Len(entries) = Len(blocks)
    /\ \A k \in 1..Len(blocks) : RecordContent(entries[k]) = JoinLines(blocks[k])

\* C11: for every sequence of well-formed blocks there is one Record per
\* block, in block order, and a Record's index, raw timing line and text,
\* joined by line breaks, are exactly the content of its block.
ParserRoundTrip ==
    (Parsed /\ AllWellFormed(original_path) /\ EmptyLineSeparated(original_path))
        => RoundTrips(original_entries, original_path.blocks)

\* The index line is the decimal spelling str() gives its value.
IsCanonicalIndexLine(line) ==
    /\ line # <<>>
    /\ \A k \in 1..Len(line) : line[k] \in Digits
    /\ Len(line) > 1 => line[1] # "0"

\* The part of C11 that holds of the code: the round trip of blocks whose
\* index line is spelled as str() spells its value.
ParserRoundTripCanonical ==
    (/\ Parsed /\ AllWellFormed(original_path) /\ EmptyLineSeparated(original_path)
     /\ \A k \in 1..Len(original_path.blocks) :
           IsCanonicalIndexLine(original_path.blocks[k][1]))
        => RoundTrips(original_entries, original_path.blocks)

ParserRoundTripCanonicalWitness ==
    /\ Parsed
    /\ Len(original_entries) = 2
    /\ original_path.eol = CRLF
    /\ original_entries[1].text = <<"a", NL, ZH1>>
    /\ original_entries[2].text = <<>>
    /\ RoundTrips(original_entries, original_path.blocks)

\* C12: every run of one or more blank lines separates blocks, whatever the
\* line ends of the file and also when a blank line holds only whitespace:
\* N well-formed blocks separated by blank lines parse to N Records.
BlockSplitting ==
    (Parsed /\ AllWellFormed(original_path))
        => Len(original_entries) = Len(original_path.blocks)

\* The part of C12 that holds of the code: blocks separated by empty lines,
\* under every line-end style.
BlockSplittingEmptyLines ==
    (Parsed /\ AllWellFormed(original_path) /\ EmptyLineSeparated(original_path))
        => Len(original_entries) = Len(original_path.blocks)

BlockSplittingEmptyLinesWitness ==
    /\ Parsed
    /\ Len(original_entries) = 2
    /\ original_path.eol = <<CR>>
    /\ original_path.sep = <<NL, NL, NL>>

(***************************************************************************)
(* Properties of the diff commands                                         *)
(***************************************************************************)
DiffRan == pc = "exit" /\ args.command = "diff"
ShowDiffRan == DiffRan /\ args.html = "None" /\ ~args.all
HtmlDiffRan == DiffRan /\ args.html # "None"
AllDiffRan == DiffRan /\ args.html = "None" /\ args.all

\* The texts of the entries of entries whose index is index.
TextsAt(entries, index) ==
    {entries[k].text : k \in {m \in 1..Len(entries) : entries[m].index = index}}

\* The number of positions of seq that satisfy Test.
CountOf(seq, Test(_)) == Cardinality({k \in 1..Len(seq) : Test(seq[k])})

\* Every element of diffs compares the text of an original entry with the
\* text of a corrected entry of the same index, and every original entry
\* whose index occurs in corrected, always with another text, is in diffs.
ShowDiffPairsByIndex ==
    /\ \A k \in 1..Len(diffs) :
          /\ diffs[k].original \in TextsAt(original_entries, diffs[k].index)
          /\ diffs[k].corrected \in TextsAt(corrected_entries, diffs[k].index)
    /\ \A k \in 1..Len(original_entries) :
          LET orig == original_entries[k]
              texts == TextsAt(corrected_entries, orig.index)
          IN texts # {} /\ orig.text \notin texts
                => \E d \in 1..Len(diffs) :
                       diffs[d].index = orig.index /\ diffs[d].original = orig.text

\* Row k of the HTML report is the row of original entry k, set against the
\* text of a corrected entry of the same index, or against nothing when no
\* corrected entry has it.
HtmlPairsByIndex ==
    /\ Len(rows) = Len(original_entries)
    /\ \A k \in 1..Len(rows) :
          LET orig == original_entries[k]
              texts == TextsAt(corrected_entries, orig.index)
          IN /\ rows[k].index = orig.index
             /\ rows[k].original = HtmlEscape(orig.text)
             /\ IF texts = {} THEN rows[k].corrected = <<>> /\ ~rows[k].changed
                ELSE \E t \in texts : /\ rows[k].corrected = HtmlEscape(t)
                                      /\ rows[k].changed = (orig.text # t)

\* changed_count lies between the number of original entries that differ
\* from every corrected entry of their index and the number that differ from
\* one.
CountPairsByIndex ==
    /\ changed_count >=
          CountOf(original_entries,
                  LAMBDA o : LET texts == TextsAt(corrected_entries, o.index)
                             IN texts # {} /\ o.text \notin texts)
    /\ changed_count <=
          CountOf(original_entries,
                  LAMBDA o : TextsAt(corrected_entries, o.index) \ {o.text} # {})

\* C13: every diff operation (show_diff, generate_html_diff, the --all
\* listing) compares an original entry with the corrected entry of the same
\* index value, not the one at the same position.
DiffPairingByIndex ==
    /\ ShowDiffRan => ShowDiffPairsByIndex
    /\ HtmlDiffRan => HtmlPairsByIndex /\ CountPairsByIndex
    /\ AllDiffRan => CountPairsByIndex

\* generate_html_diff and the --all listing do pair by index value.
MappedDiffPairingByIndex ==
    /\ HtmlDiffRan => HtmlPairsByIndex /\ CountPairsByIndex
    /\ AllDiffRan => CountPairsByIndex

\* The corrected file holds the entries of the original in another order,
\* one of them changed, and the HTML report was written.
MappedDiffPairingByIndexWitness ==
    /\ HtmlDiffRan
    /\ Len(original_entries) = 2 /\ Len(corrected_entries) = 2
    /\ original_entries[1].index = corrected_entries[2].index
    /\ original_entries[2].index = corrected_entries[1].index
    /\ original_entries[1].index # original_entries[2].index
    /\ changed_count = 1

\* The index values of entries.
IndicesOf(entries) == {entries[k].index : k \in 1..Len(entries)}

\* Row k of the report shows original entry k as unchanged, with an empty
\* counterpart, when no corrected entry has its index.
OriginalOnlyReported ==
    \A k \in 1..Len(original_entries) :
        original_entries[k].index \notin IndicesOf(corrected_entries)
            => /\ k <= Len(rows)
               /\ rows[k].index = original_entries[k].index
               /\ rows[k].corrected = <<>>
               /\ ~rows[k].changed

\* A corrected entry whose index no original entry has is shown by a row of
\* the report, unchanged and with an empty counterpart.
CorrectedOnlyReported ==
    \A k \in 1..Len(corrected_entries) :
        corrected_entries[k].index \notin IndicesOf(original_entries)
            => \E r \in 1..Len(rows) :
                   /\ rows[r].index = corrected_entries[k].index
                   /\ rows[r].original = <<>>
                   /\ ~rows[r].changed

\* show_diff reports no index as changed that one sequence lacks.
UnmatchedNotChanged ==
    \A d \in 1..Len(diffs) :
        diffs[d].index \in IndicesOf(original_entries) \cap IndicesOf(corrected_entries)

\* C14: an index that occurs in only one of the two sequences, only in the
\* original or only in the corrected, is reported in the diff result as an
\* unchanged entry with an empty counterpart, and no error is raised.
UnmatchedIndices ==
    /\ HtmlDiffRan => OriginalOnlyReported /\ CorrectedOnlyReported
    /\ ShowDiffRan => UnmatchedNotChanged

\* The half of C14 that holds: the HTML report shows an index of the
\* original alone as an unchanged row with an empty counterpart.
UnmatchedOriginalIndex == HtmlDiffRan => OriginalOnlyReported

UnmatchedOriginalIndexWitness ==
    /\ HtmlDiffRan
    /\ corrected_entries # <<>>
    /\ \E k \in 1..Len(original_entries) :
           original_entries[k].index \notin IndicesOf(corrected_entries)

(***************************************************************************)
(* Properties of word_level_diff on one replaced word, and across calls    *)
(***************************************************************************)
TerminalDiffed == pc = "word_level_diff"

\* A non-empty run of ASCII letters and digits.
IsAsciiWord(str) == str # <<>> /\ \A k \in 1..Len(str) : IsAsciiAlnum(str[k])

\* "[-old-]{+new+}", with the codes Colors holds.
Marked(old, new) ==
    Colors.RED \o Colors.STRIKETHROUGH \o <<"[", "-">> \o old \o <<"-", "]">> \o Colors.RESET
        \o Colors.GREEN \o <<"{", "+">> \o new \o <<"+", "}">> \o Colors.RESET

\* original is prefix, old, suffix and corrected is prefix, new, suffix, for
\* the prefix of n characters and the suffix of m, with old and new two
\* different ASCII words that no letter or digit adjoins.
WordReplacedAt(n, m) ==
    LET lo == Len(original)
        lc == Len(corrected)
        old == SubSeq(original, n + 1, lo - m)
        new == SubSeq(corrected, n + 1, lc - m)
    IN /\ n + m <= lo /\ n + m <= lc
       /\ SubSeq(original, 1, n) = SubSeq(corrected, 1, n)
       /\ SubSeq(original, lo - m + 1, lo) = SubSeq(corrected, lc - m + 1, lc)
       /\ IsAsciiWord(old) /\ IsAsciiWord(new) /\ old # new
       /\ n > 0 => ~IsAsciiAlnum(original[n])
       /\ m > 0 => ~IsAsciiAlnum(original[lo - m + 1])

\* C15: for 'Lantern框架' and 'LangChain框架' the alignment is Equal over the
\* empty prefix, Replace of 'Lantern' by 'LangChain', Equal over '框架'; and
\* when one ASCII word is replaced inside otherwise unchanged text, the
\* rendered diff is the prefix, then [-old-]{+new+}, then the suffix.
SingleWordReplacement ==
    TerminalDiffed =>
        /\ original = Lantern /\ corrected = LangChain
              => opcodes = <<Op("equal", 0, 0, 0, 0), Op("replace", 0, 1, 0, 1),
                             Op("equal", 1, 3, 1, 3)>>
        /\ \A n \in 0..Len(original), m \in 0..Len(original) :
              WordReplacedAt(n, m)
                  => result = SubSeq(original, 1, n)
                              \o Marked(SubSeq(original, n + 1, Len(original) - m),
                                        SubSeq(corrected, n + 1, Len(corrected) - m))
                              \o SubSeq(original, Len(original) - m + 1, Len(original))

\* The tokens of seq as a set.
TokensOf(seq) == {seq[k] : k \in 1..Len(seq)}

\* Token p is the one token in which the two token sequences differ: an
\* ASCII word replaced by another, neither of them a token of the rest.
TokenReplacedAt(p) ==
    /\ Len(orig_tokens) = Len(corr_tokens)
    /\ p \in 1..Len(orig_tokens)
    /\ \A k \in 1..Len(orig_tokens) : k # p => orig_tokens[k] = corr_tokens[k]
    /\ orig_tokens[p] # corr_tokens[p]
    /\ IsAsciiWord(orig_tokens[p]) /\ IsAsciiWord(corr_tokens[p])
    /\ orig_tokens[p] \notin TokensOf(corr_tokens)
    /\ corr_tokens[p] \notin TokensOf(orig_tokens)

\* C15, as the code has it: the alignment of the two texts is Replace of
\* 'Lantern' by 'LangChain', then Equal over '框架', with no Equal op over the
\* empty prefix; and when one token, an ASCII word, is replaced by another
\* and neither word is a token of the unchanged text, the rendered diff is
\* the tokens before it, then [-old-]{+new+}, then the tokens after it.
SingleTokenReplacement ==
    TerminalDiffed =>
        /\ original = Lantern /\ corrected = LangChain
              => /\ opcodes = <<Op("replace", 0, 1, 0, 1), Op("equal", 1, 3, 1, 3)>>
                 /\ result = Marked(SubSeq(Lantern, 1, 7), SubSeq(LangChain, 1, 9))
                             \o <<ZH1, ZH2>>
        /\ \A p \in 1..Len(orig_tokens) :
              TokenReplacedAt(p)
                  => result = Join(SubSeq(orig_tokens, 1, p - 1))
                              \o Marked(orig_tokens[p], corr_tokens[p])
                              \o Join(SubSeq(orig_tokens, p + 1, Len(orig_tokens)))

\* A word was replaced between a prefix and a suffix, and the diff rendered
\* without colors.
SingleTokenReplacementWitness ==
    /\ TerminalDiffed
    /\ Colors = ColorsDisabled
    /\ \E p \in 2..(Len(orig_tokens) - 1) : TokenReplacedAt(p)

\* The scenario of the two texts was diffed.
LanternScenarioWitness ==
    TerminalDiffed /\ original = Lantern /\ corrected = LangChain

(***************************************************************************)
(* Properties of main                                                      *)
(***************************************************************************)
Ended == exit_code # -1

\* The files the command reads: validate and diff read both, analyze the
\* input file.
Readable ==
    IF args.command = "analyze" THEN Decodes(original_path)
    ELSE Decodes(original_path) /\ Decodes(corrected_path)

\* C16: a run of validate ends with exit code 0 when the verdict is pass and
\* 1 when it is fail; a run of diff (terminal or HTML mode) and a run of
\* analyze always end with exit code 0, whatever the files contain.
ExitCodes ==
    Ended =>
        /\ args.command = "validate" /\ pc = "exit"
              => exit_code = IF is_valid THEN 0 ELSE 1
        /\ args.command \in {"diff", "analyze"} => exit_code = 0

\* C16, as the code has it: what is claimed holds of the runs whose files
\* decode as UTF-8; a run that reads a file which does not ends with exit
\* code 1, whatever the command.
ExitCodesOfReadableFiles ==
    Ended /\ args.command \in {"validate", "diff", "analyze"} =>
        IF Readable
        THEN /\ pc = "exit"
             /\ args.command = "validate" => exit_code = IF is_valid THEN 0 ELSE 1
             /\ args.command \in {"diff", "analyze"} => exit_code = 0
        ELSE exit_code = 1 /\ pc = "UnicodeDecodeError"

\* validate ran on two readable files and the verdict was fail.
ExitCodesOfReadableFilesWitness ==
    /\ Ended
    /\ args.command = "validate"
    /\ Readable
    /\ original_entries # <<>> /\ corrected_entries # <<>>
    /\ ~is_valid
    /\ exit_code = 1

\* The diff command ran on two files of the same content.
SelfDiffRan == DiffRan /\ FileContent(original_path) = FileContent(corrected_path)

\* No two entries of entries have the same index.
DistinctIndices(entries) ==
    \A k, m \in 1..Len(entries) : entries[k].index = entries[m].index => k = m

\* C20: for every Record sequence the parser can produce, one with an index
\* value that occurs more than once included, diffing it against an
\* identical copy reports zero changed entries in every mode: show_diff
\* returns an empty list, generate_html_diff a changed count of 0, and the
\* --all listing counts 0 changed.
SelfDiffReportsNoChange ==
    SelfDiffRan =>
        /\ ShowDiffRan => diffs = <<>>
        /\ HtmlDiffRan => changed_count = 0 /\ \A k \in 1..Len(rows) : ~rows[k].changed
        /\ AllDiffRan => changed_count = 0

\* What holds of C20: show_diff returns an empty list for every sequence,
\* and the two other modes count 0 changed when no index occurs twice.
SelfDiffOfDistinctIndices ==
    SelfDiffRan =>
        /\ ShowDiffRan => diffs = <<>>
        /\ DistinctIndices(original_entries) /\ ~ShowDiffRan => changed_count = 0

SelfDiffOfDistinctIndicesWitness ==
    /\ SelfDiffRan
    /\ AllDiffRan
    /\ Len(original_entries) > 1
    /\ DistinctIndices(original_entries)

(***************************************************************************)
(* Properties of the alignment: equal runs and gaps                        *)
(***************************************************************************)
\* The Equal op covers the same tokens, at least one, in source and target.
EqualSpansIdentical(op) ==
    /\ op.i1 < op.i2
    /\ Slice(orig_tokens, op.i1, op.i2) = Slice(corr_tokens, op.j1, op.j2)

\* The tokens just before the op differ, or a sequence starts there.
StopsBefore(op) ==
    op.i1 = 0 \/ op.j1 = 0 \/ At(orig_tokens, op.i1 - 1) # At(corr_tokens, op.j1 - 1)

\* The tokens just after the op differ, or a sequence ends there.
StopsAfter(op) ==
    \/ op.i2 = Len(orig_tokens)
    \/ op.j2 = Len(corr_tokens)
    \/ At(orig_tokens, op.i2) # At(corr_tokens, op.j2)

\* Of two consecutive ops exactly one is Equal.
OpsAlternate ==
    \A k \in 1..(Len(opcodes) - 1) :
        (opcodes[k].tag = "equal") # (opcodes[k + 1].tag = "equal")

\* A non-Equal op is tagged by the sides of its gap that are not empty.
GapsClassified ==
    \A k \in 1..Len(opcodes) :
        LET op == opcodes[k] IN
        op.tag # "equal" =>
            /\ op.i1 < op.i2 \/ op.j1 < op.j2
            /\ op.tag = "delete" <=> op.i1 < op.i2 /\ op.j1 = op.j2
            /\ op.tag = "insert" <=> op.i1 = op.i2 /\ op.j1 < op.j2
            /\ op.tag = "replace" <=> op.i1 < op.i2 /\ op.j1 < op.j2

\* C17: each Equal op covers token-wise identical spans and cannot be
\* extended by one token at either end (the tokens just before, and just
\* after, the op differ, or an end of a sequence is reached); no two
\* consecutive ops are both Equal or both non-Equal; a non-Equal op is
\* Delete, Insert or Replace by the sides of it that are non-empty, never
\* with both empty.
MaximalEqualRuns ==
    Diffed =>
        /\ \A k \in 1..Len(opcodes) :
              opcodes[k].tag = "equal"
                  => /\ EqualSpansIdentical(opcodes[k])
                     /\ StopsBefore(opcodes[k])
                     /\ StopsAfter(opcodes[k])
        /\ OpsAlternate
        /\ GapsClassified

\* C17, as the code has it: an Equal op cannot be extended into a Replace
\* next to it; next to an Insert or a Delete the tokens just outside the op
\* may be equal.  The rest is as claimed.
EqualRunsMaximalInReplace ==
    Diffed =>
        /\ \A k \in 1..Len(opcodes) :
              opcodes[k].tag = "equal"
                  => /\ EqualSpansIdentical(opcodes[k])
                     /\ k > 1 /\ opcodes[k - 1].tag = "replace" => StopsBefore(opcodes[k])
                     /\ k < Len(opcodes) /\ opcodes[k + 1].tag = "replace"
                           => StopsAfter(opcodes[k])
                     /\ k = 1 => opcodes[k].i1 = 0 /\ opcodes[k].j1 = 0
                     /\ k = Len(opcodes) => /\ opcodes[k].i2 = Len(orig_tokens)
                                            /\ opcodes[k].j2 = Len(corr_tokens)
        /\ OpsAlternate
        /\ GapsClassified

\* An alignment with a Replace between two Equal ops.
EqualRunsMaximalInReplaceWitness ==
    /\ Diffed
    /\ \E k \in 2..(Len(opcodes) - 1) :
           /\ opcodes[k].tag = "replace"
           /\ opcodes[k - 1].tag = "equal"
           /\ opcodes[k + 1].tag = "equal"

(***************************************************************************)
(* Properties of a sequence of word_level_diff calls                       *)
(***************************************************************************)
\* The string word_level_diff(original, corrected, use_color) returns in a
\* process that has made no call before.
FirstCallResult(use_color) ==
    Render(IF use_color THEN ColorsEnabled ELSE ColorsDisabled,
           get_opcodes(SequenceMatcher(tokenize(original), tokenize(corrected))),
           tokenize(original), tokenize(corrected))

\* C18: the string word_level_diff returns depends only on its three
\* arguments: in any sequence of calls within one process, a call with
\* use_color=True returns the same colored string whether or not a call with
\* use_color=False was made before it.
NoStateBetweenCalls ==
    [][\A use_color \in BOOLEAN :
           WordLevelDiff(use_color) => result' = FirstCallResult(use_color)]_vars

\* What holds of C18: a call returns the colored string when use_color is
\* True and no call has disabled the colors before, and the plain string
\* otherwise.
CallsDependOnColors ==
    [][\A use_color \in BOOLEAN :
           WordLevelDiff(use_color)
               => result' = FirstCallResult(use_color /\ Colors = ColorsEnabled)]_vars

\* A second call, made after a call with use_color=False, on texts that
\* differ.
CallsDependOnColorsWitness ==
    /\ TerminalDiffed
    /\ Colors = ColorsDisabled
    /\ orig_tokens # corr_tokens

(***************************************************************************)
(* Properties of the raw timing line                                       *)
(***************************************************************************)
\* The Records of both files.
AllEntries ==
    {original_entries[k] : k \in 1..Len(original_entries)}
        \cup {corrected_entries[k] : k \in 1..Len(corrected_entries)}

\* The checks of the issues reported for the pair at position p.
ChecksAt(p) == {IssuesAt(p)[k].check : k \in 1..Len(IssuesAt(p))}

\* C19: for any two Records the parser produced, equal raw timing lines
\* imply equal start and equal end; hence on sequences of equal length the
\* validator never reports a start or end issue for a pair without the
\* timing-line-formatting issue for that pair, and validation passes exactly
\* when index and raw timing line agree at every position.
RawLineDeterminesTimestamps ==
    Validated =>
        /\ \A e1, e2 \in AllEntries :
              e1.raw_timestamp_line = e2.raw_timestamp_line
                  => e1.start_time = e2.start_time /\ e1.end_time = e2.end_time
        /\ Len(original_entries) = Len(corrected_entries)
              => /\ \A p \in 0..(Len(original_entries) - 1) :
                        ChecksAt(p) \cap {"start", "end"} # {} => "raw" \in ChecksAt(p)
                 /\ is_valid <=>
                        \A p \in 0..(Len(original_entries) - 1) :
                            /\ At(original_entries, p).index = At(corrected_entries, p).index
                            /\ At(original_entries, p).raw_timestamp_line
                                 = At(corrected_entries, p).raw_timestamp_line

\* A pair whose end time differs: the end issue comes with the
\* timing-line-formatting issue.
RawLineDeterminesTimestampsWitness ==
    /\ Validated
    /\ Len(original_entries) = Len(corrected_entries)
    /\ \E p \in 0..(Len(original_entries) - 1) : {"end", "raw"} \subseteq ChecksAt(p)

(***************************************************************************)
(* Properties of the diff modes on validated files                         *)
(***************************************************************************)
\* validate_correction passes on the two Record sequences of the run.
ValidationPasses == Validate(original_entries, corrected_entries).is_valid

\* The index and the two texts of what a diff mode marks as changed, in
\* order: for show_diff the elements of its list, for the index-keyed diff
\* the original entries whose counterpart in corr_map has another text.
ChangedByPosition ==
    LET found == show_diff(original_entries, corrected_entries) IN
    [k \in 1..Len(found) |-> <<found[k].index, found[k].original, found[k].corrected>>]
ChangedByIndex ==
    LET marked == SelectSeq(original_entries,
                            LAMBDA o : IsChanged(o, CorrMapGet(corrected_entries, o.index)))
    IN [k \in 1..Len(marked) |->
           <<marked[k].index, marked[k].text,
             CorrMapGet(corrected_entries, marked[k].index)[1].text>>]

\* What the mode that ran reported is what the other pairing would report.
ModesAgree ==
    /\ ShowDiffRan => /\ diffs = show_diff(original_entries, corrected_entries)
                      /\ ChangedByPosition = ChangedByIndex
    /\ HtmlDiffRan => /\ changed_count = Len(ChangedByPosition)
                      /\ ChangedByIndex = ChangedByPosition
                      /\ \A k \in 1..Len(rows) :
                            rows[k].changed
                               = (original_entries[k].text # corrected_entries[k].text)
    /\ AllDiffRan => /\ changed_count = Len(ChangedByPosition)
                     /\ ChangedByIndex = ChangedByPosition

\* C21: for every pair of Record sequences on which validate_correction
\* passes, the positional diff (show_diff) and the index-keyed diff
\* (generate_html_diff and the --all listing) mark the same original entries
\* as changed, in the same order, and so report the same changed count.
DiffModesAgree == DiffRan /\ ValidationPasses => ModesAgree

\* What holds of C21: the modes agree on validated sequences in which no
\* index value occurs twice.
DiffModesAgreeOnDistinctIndices ==
    DiffRan /\ ValidationPasses /\ DistinctIndices(original_entries) => ModesAgree

\* The HTML report of two validated files of two entries, one of them
\* changed.
DiffModesAgreeOnDistinctIndicesWitness ==
    /\ HtmlDiffRan
    /\ ValidationPasses
    /\ DistinctIndices(original_entries)
    /\ Len(original_entries) = 2
    /\ changed_count = 1

(***************************************************************************)
(* Properties of a passing validation, read on the files                   *)
(***************************************************************************)
\* The index line and the timing line of a block (the whole block when it
\* has one line).
HeadLines(block) == SubSeq(block, 1, IF Len(block) < 2 THEN Len(block) ELSE 2)

\* The two files hold the same blocks but for their text lines.
SameBlocksButText ==
    /\ Len(original_path.blocks) = Len(corrected_path.blocks)
    /\ original_path.sep = corrected_path.sep
    /\ \A k \in 1..Len(original_path.blocks) :
          HeadLines(original_path.blocks[k]) = HeadLines(corrected_path.blocks[k])

\* C22: whenever validate_correction passes on two files, the files differ
\* in nothing but the text lines of their entries: every index line, every
\* timing line and the set of blocks are the same in both files.
OnlyTextEdited == Validated /\ is_valid => SameBlocksButText

\* What a passing validation does certify: the two files give the same
\* number of Records, and the Records at each position have the same index
\* value, the same stripped timing line and the same timestamps.
OnlyTextEditedOfRecords ==
    Validated /\ is_valid =>
        /\ Len(original_entries) = Len(corrected_entries)
        /\ \A k \in 1..Len(original_entries) :
              /\ original_entries[k].index = corrected_entries[k].index
              /\ original_entries[k].raw_timestamp_line
                   = corrected_entries[k].raw_timestamp_line
              /\ original_entries[k].start_time = corrected_entries[k].start_time
              /\ original_entries[k].end_time = corrected_entries[k].end_time

\* Validation passed on two files whose Records differ in their text.
OnlyTextEditedOfRecordsWitness ==
    /\ Validated
    /\ is_valid
    /\ \E k \in 1..Len(original_entries) :
           original_entries[k].text # corrected_entries[k].text

====
